---- MODULE Spec2Model ----
(***************************************************************************)
(* Verification model of the IngressRoute graph builder                    *)
(* (internal/dag/builder_adobe.go) and of the listener snapshot cache      *)
(* (internal/contour/listener.go).                                         *)
(*                                                                         *)
(* Strings are modelled as sequences of one-character tokens, so "/a" is   *)
(* <<"/", "a">> and the empty string is <<>>.  A resource is identified by *)
(* a natural number whose numeric order is the lexical order of its        *)
(* "namespace/name" identifier; all resources live in one namespace.       *)
(***************************************************************************)
EXTENDS Integers, Sequences, FiniteSets, TLC

(* ----------------------------- bounds --------------------------------- *)
NumResources == 3
MaxEntries == 3
MaxFqdnEntries == 2
NumProcs == 3
NumCallers == 2
MaxVersion == 2
MaxNames == 2
MaxHosts == 3
NumSecrets == 2
MaxServices == 3
MaxWeight == 2
MaxNegativeWeight == 1
NumClusterNames == 2
MaxVersionHosts == 2
MaxHeaders == 2
NumObjects == 2
MaxSetCalls == 2

Ids == 1..NumResources

(* ------------------------ generic helpers ----------------------------- *)
Last(s) == s[Len(s)]

HasPrefix(s, p) == Len(p) <= Len(s) /\ SubSeq(s, 1, Len(p)) = p

Range(s) == {s[i] : i \in DOMAIN s}

Perms(S) == {p \in [1..Cardinality(S) -> S] : \A i, j \in DOMAIN p : i # j => p[i] # p[j]}

Min(S) == CHOOSE x \in S : \A y \in S : x <= y

RECURSIVE SortedSeq(_)
SortedSeq(S) == IF S = {} THEN <<>> ELSE <<Min(S)>> \o SortedSeq(S \ {Min(S)})

(* sort.Strings on a slice of identifiers: the ascending rearrangement. *)
RECURSIVE sortStrings(_)
sortStrings(s) ==
    IF s = <<>> THEN <<>>
    ELSE LET m == Min(Range(s))
             i == CHOOSE j \in DOMAIN s : s[j] = m /\ \A l \in 1..(j-1) : s[l] # m
         IN <<m>> \o sortStrings(SubSeq(s, 1, i-1) \o SubSeq(s, i+1, Len(s)))

(* --------------------- program constants and inputs ------------------- *)
(* Status values of internal/k8s (StatusValid, StatusInvalid, StatusOrphaned). *)
StatusValid == "valid"
StatusInvalid == "invalid"
StatusOrphaned == "orphaned"

(* The empty string, and description texts: a description is the format   *)
(* string together with its arguments (identifiers, strings).             *)
EmptyStr == <<>>
Desc(m, is, ss) == [msg |-> m, ids |-> is, strs |-> ss]
EmptyDesc == Desc("", <<>>, <<>>)

MsgFqdn == "fqdn %q is used in multiple IngressRoutes: %s"
MsgRootNamespace == "root IngressRoute cannot be defined in this namespace"
MsgFqdnBlank == "Spec.VirtualHost.Fqdn must be specified"
MsgSecretInvalid == "Spec.VirtualHost.TLS Secret %q is invalid: %s"
MsgSecretDelegation == "Spec.VirtualHost.TLS Secret %q certificate delegation not permitted"
MsgBoth == "route %q: cannot specify services and delegate in the same route"
MsgPrefix == "the path prefix %q does not match the parent's path prefix %q"
MsgPort == "route %q: service %q: port must be in the range 1-65535"
MsgService == "Service [%s:%d] is invalid or missing"
MsgIdleTimeout == "route %q: idle timeout can not be disabled"
MsgHeaders == "cannot specify duplicate header 'exact match' conditions in the same route"
MsgServiceIdleTimeout == "route: %q service %q: idle timeout can not be disabled"
MsgCycle == "route creates a delegation cycle: %s"
MsgValid == "valid IngressRoute"
MsgTCPBoth == "tcpproxy: cannot specify services and delegate in the same tcpproxy"
MsgTCPService == "tcpproxy: service %s/%s/%d: not found"
MsgTCPCycle == "tcpproxy creates a delegation cycle: %s"
MsgOrphaned == "this IngressRoute is not part of a delegation chain from a root IngressRoute"

(* Paths, hosts, services and secrets of the input snapshots. *)
PathA == <<"/", "a">>
PathB == <<"/", "b">>
HostA == "a.x"
HostB == "b.x"
Fqdns == {HostA, HostB}

(* b.Source.services and b.Source.secrets: what the lookups can find. *)
Services == {"s1", "s2"}
Secrets == {"sec"}
MaxPort == 65535

NoTLS == [isnil |-> TRUE, secretName |-> "", passthrough |-> FALSE]
NoVirtualHost == [isnil |-> TRUE, fqdn |-> "", tls |-> NoTLS]
TLSSecret(n) == [isnil |-> FALSE, secretName |-> n, passthrough |-> FALSE]
TLSPassthrough == [isnil |-> FALSE, secretName |-> "", passthrough |-> TRUE]
VirtualHostOf(f, t) == [isnil |-> FALSE, fqdn |-> f, tls |-> t]

(* A delegate names a resource; name 0 stands for the nil pointer. *)
NoDelegate == 0

(* An idle timeout as a resource carries it: nil, or a duration message.  *)
(* Durations are counted in minutes; a message that ptypes.Duration       *)
(* rejects (a value out of the protobuf range) is not valid.              *)
NoDuration == <<>>
Duration(m) == <<[valid |-> TRUE, d |-> m]>>
MalformedDuration == <<[valid |-> FALSE, d |-> 0]>>
Hour == 60

ServiceWithTimeout(n, p, t) == [name |-> n, port |-> p, idleTimeout |-> t]
Service(n, p) == ServiceWithTimeout(n, p, NoDuration)
(* A header condition of a route entry: the header is present, or has    *)
(* exactly the value Exact.                                               *)
HeaderCondition(n, e, p) == [Name |-> n, Exact |-> e, Present |-> p]

RouteEntryWithTimeout(m, svcs, d, t) ==
    [match |-> m, services |-> svcs, delegate |-> d, permitInsecure |-> FALSE, idleTimeout |-> t,
     headerMatch |-> <<>>]
RouteEntryWithHeaders(m, svcs, hm) == [RouteEntryWithTimeout(m, svcs, NoDelegate, NoDuration) EXCEPT !.headerMatch = hm]
RouteEntry(m, svcs, d) == RouteEntryWithTimeout(m, svcs, d, NoDuration)
NoTCPProxy == [isnil |-> TRUE, services |-> <<>>, delegate |-> NoDelegate]
TCPProxyOf(svcs, d) == [isnil |-> FALSE, services |-> svcs, delegate |-> d]
IngressRoute(vh, rs, tp) == [virtualhost |-> vh, routes |-> rs, tcpproxy |-> tp]

(* ------------------------- Go slices of visited ----------------------- *)
(* A slice is a window (len, cap) on a backing array of the heap; append  *)
(* writes in place while len < cap and otherwise copies into a new array  *)
(* of doubled capacity.  Array 0 is the nil slice's (no) array.           *)
NilSlice == [arr |-> 0, len |-> 0, cap |-> 0]

SliceElems(h, s) == IF s.len = 0 THEN <<>> ELSE SubSeq(h[s.arr], 1, s.len)

NewArray(h) == Min((1..(Cardinality(DOMAIN h) + 1)) \ DOMAIN h)

GrowCap(c) == IF c = 0 THEN 1 ELSE 2 * c

(* append(s, x): the new heap and the resulting slice. *)
append(h, s, x) ==
    IF s.len < s.cap
    THEN [heap  |-> [h EXCEPT ![s.arr][s.len + 1] = x],
          slice |-> [s EXCEPT !.len = s.len + 1]]
    ELSE LET a == NewArray(h)
             c == GrowCap(s.cap)
             old == SliceElems(h, s)
             arr == [i \in 1..c |-> IF i <= s.len THEN old[i] ELSE IF i = s.len + 1 THEN x ELSE 0]
         IN [heap  |-> (a :> arr) @@ h,
             slice |-> [arr |-> a, len |-> s.len + 1, cap |-> c]]

(* Arrays that no live frame refers to are garbage. *)
Collect(h, stk) == [a \in {stk[i].visited.arr : i \in DOMAIN stk} \cap DOMAIN h |-> h[a]]

(* ------------------------- status writers ----------------------------- *)
(* The values of an ObjectStatusWriter: a map from "status",              *)
(* "description" and "vhost" to what was last written under that key.     *)
NoValues == [k \in {} |-> ""]

WithValue(vals, k, v) == (k :> v) @@ vals

SetInvalid(vals, d) == WithValue(WithValue(vals, "description", d), "status", StatusInvalid)

SetValid(vals) == WithValue(WithValue(vals, "description", Desc(MsgValid, <<>>, <<>>)), "status", StatusValid)

ValueOr(vals, k, dflt) == IF k \in DOMAIN vals THEN vals[k] ELSE dflt

StatusOf(vals) == [status      |-> ValueOr(vals, "status", ""),
                   description |-> ValueOr(vals, "description", EmptyDesc),
                   vhost       |-> ValueOr(vals, "vhost", "")]

(* commit: a writer without values records nothing, and only the first    *)
(* record made for an object during a pass is kept.                       *)
commit(sts, id, vals) ==
    IF DOMAIN vals = {} THEN sts
    ELSE IF id \in DOMAIN sts THEN sts
    ELSE (id :> StatusOf(vals)) @@ sts

(* ----------------------------- the builder ---------------------------- *)
(* A builder state b is a record: pc, valid (the roots and delegates      *)
(* still to be computed), statuses, orphaned, virtualhosts,               *)
(* securevirtualhosts, stack (the activations of processIngressRoutes and *)
(* processIngressRouteTCPProxy) and heap (the arrays behind visited).     *)
NoRoutes == [k \in {} |-> 0]
NoTCPTarget == [isnil |-> TRUE, clusters |-> <<>>]

Frame(fn, ir, prefixMatch, visited, host, enforceTLS, sw, shared) ==
    [fn |-> fn, ir |-> ir, i |-> 1, prefixMatch |-> prefixMatch, visited |-> visited,
     host |-> host, enforceTLS |-> enforceTLS, sw |-> sw, shared |-> shared]

Top(b) == b.stack[Len(b.stack)]

(* matchesPathPrefix: both strings get a trailing "/" before the prefix test. *)
WithSlash(p) == IF Last(p) # "/" THEN Append(p, "/") ELSE p

matchesPathPrefix(path, prefix) ==
    IF Len(prefix) = 0 THEN TRUE
    ELSE IF Len(path) = 0 THEN FALSE
    ELSE HasPrefix(WithSlash(path), WithSlash(prefix))

routeEnforceTLS(enforceTLS, permitInsecure) == enforceTLS /\ ~permitInsecure

lookupService(name, port) == name \in Services

lookupSecret(name) == name \in Secrets

isBlank(s) == s = ""

rootAllowed(ns) == TRUE

delegationPermitted(secret, ns) == TRUE

lookupVirtualHost(vhs, host) ==
    IF host \in DOMAIN vhs THEN vhs ELSE (host :> [routes |-> NoRoutes]) @@ vhs

lookupSecureVirtualHost(svhs, host) ==
    IF host \in DOMAIN svhs THEN svhs
    ELSE (host :> [secret |-> "", tcpproxy |-> NoTCPTarget, routes |-> NoRoutes]) @@ svhs

(* The conditions of a route as one string: the path prefix, then every   *)
(* header condition after a comma.                                        *)
RECURSIVE headerConditionsToString(_)
headerConditionsToString(hcs) ==
    IF hcs = <<>> THEN <<>>
    ELSE <<",", "header", Head(hcs).Name, Head(hcs).MatchType, Head(hcs).Value>>
             \o headerConditionsToString(Tail(hcs))

conditionsToString(r) == r.pathCondition \o headerConditionsToString(r.headerConditions)

(* addRoute: the routes of a virtual host are keyed by their conditions. *)
addRoute(vhs, host, r) ==
    [vhs EXCEPT ![host].routes = (conditionsToString(r) :> r) @@ vhs[host].routes]

(* Mutant: the conditions are collected over the entries up to this one. *)
RECURSIVE headerMatchCondsOfAll(_, _)
headerMatchCondsOfAll(routes, i) ==
    IF i = 0 THEN <<>>
    ELSE headerMatchCondsOfAll(routes, i - 1)
             \o [k \in DOMAIN routes[i].headerMatch |-> routes[i].headerMatch[Len(routes[i].headerMatch)]]

(* The conditions made of the header matches of entry i: each holds the   *)
(* address of the loop variable hm, which after the loop is the last      *)
(* header match of the entry.                                             *)
headerMatchConds(routes, i) ==
    [k \in DOMAIN routes[i].headerMatch |-> routes[i].headerMatch[Len(routes[i].headerMatch)]]

(* headerConditionsValid: no two exact matches on one header name. *)
IsExact(c) == ~c.Present /\ c.Exact # ""
headerConditionsValid(conds) ==
    ~\E i, j \in DOMAIN conds :
        i < j /\ IsExact(conds[i]) /\ IsExact(conds[j]) /\ conds[i].Name = conds[j].Name

(* mergeHeaderConditions: the header conditions of the route. *)
mergeHeaderConditions(conds) ==
    [k \in DOMAIN conds |->
        IF conds[k].Present
        THEN [Name |-> conds[k].Name, Value |-> "", MatchType |-> "present"]
        ELSE [Name |-> conds[k].Name, Value |-> conds[k].Exact, MatchType |-> "exact"]]

(* The idle timeout of a route or of a cluster from the requested one t:  *)
(* absent when none is requested or the message does not convert, an hour *)
(* when more is requested, refused when the request is zero or negative,  *)
(* the request itself otherwise.                                          *)
idleTimeoutUnclamped(t) ==
    IF t = NoDuration \/ ~t[1].valid THEN [invalid |-> FALSE, value |-> <<>>]
    ELSE IF t[1].d <= 0 THEN [invalid |-> TRUE, value |-> <<>>]
    ELSE [invalid |-> FALSE, value |-> <<t[1].d>>]

idleTimeout(t) ==
    IF t = NoDuration \/ ~t[1].valid THEN [invalid |-> FALSE, value |-> <<>>]
    ELSE IF t[1].d > Hour THEN [invalid |-> FALSE, value |-> <<Hour>>]
    ELSE IF t[1].d <= 0 THEN [invalid |-> TRUE, value |-> <<>>]
    ELSE [invalid |-> FALSE, value |-> <<t[1].d>>]

(* The cluster made of a service of a route. *)
Cluster(svc) == [name |-> svc.name, port |-> svc.port, idleTimeout |-> idleTimeout(svc.idleTimeout).value]

(* The first service of a list that fails the port check, the lookup or   *)
(* the idle timeout check, 0 if none does.                                *)
BadService(svc) == svc.port < 1 \/ svc.port > MaxPort \/ ~lookupService(svc.name, svc.port)

FirstBad(svcs) ==
    IF \E k \in DOMAIN svcs : BadService(svcs[k]) \/ idleTimeout(svcs[k].idleTimeout).invalid
    THEN Min({k \in DOMAIN svcs : BadService(svcs[k]) \/ idleTimeout(svcs[k].idleTimeout).invalid})
    ELSE 0

(* The return of the top activation with the writer values vals: a writer *)
(* made for the target of an edge is committed by the caller right after  *)
(* the call; the root's writer belongs to computeIngressRoute, so the     *)
(* root's TCP activation hands its values to the pending routes           *)
(* activation and the root's routes activation is followed by the         *)
(* deferred commit.  A TCP activation resumed after its call has nothing  *)
(* left to do and returns at once.                                        *)
RECURSIVE Return(_, _)
Return(b, vals) ==
    LET n == Len(b.stack)
        f == b.stack[n]
        rest == SubSeq(b.stack, 1, n - 1)
        rest2 == IF f.shared /\ n > 1 THEN [rest EXCEPT ![n - 1].sw = vals] ELSE rest
        b2 == [b EXCEPT !.stack = rest2,
                        !.statuses = IF f.shared THEN @ ELSE commit(@, f.ir, vals),
                        !.heap = Collect(b.heap, rest2)]
    IN IF rest2 # <<>> /\ Last(rest2).fn = "tcp" /\ Last(rest2).i = 2
       THEN Return(b2, Last(rest2).sw)
       ELSE b2

(* A call: the callee appends itself to the visited slice it was given. *)
Call(b, fn, ir, prefixMatch, visited, host, enforceTLS, sw, shared) ==
    LET ap == append(b.heap, visited, ir)
    IN [b EXCEPT !.heap = ap.heap,
                 !.stack = Append(@, Frame(fn, ir, prefixMatch, ap.slice, host, enforceTLS, sw, shared))]

(* validIngressRoutes: ord is the order in which the map of resources is  *)
(* ranged over and ford the order in which the map of FQDNs is.  Returns  *)
(* the valid list and the statuses after the conflicting roots were       *)
(* marked.                                                                *)
RECURSIVE markConflicting(_, _, _, _)
markConflicting(sts, irs, fqdn, msg) ==
    IF irs = <<>> THEN sts
    ELSE markConflicting(
             commit(sts, Head(irs), SetInvalid(WithValue(NoValues, "vhost", fqdn), msg)),
             Tail(irs), fqdn, msg)

(* Mutant: the identifiers are listed in the order the map range gave. *)
conflictMessageUnsorted(fqdn, irs) == Desc(MsgFqdn, irs, <<<<fqdn>>>>)

(* The message for the roots irs that all declare fqdn. *)
conflictMessage(fqdn, irs) == Desc(MsgFqdn, sortStrings(irs), <<<<fqdn>>>>)

(* Mutant: the first root of a conflicting group is still handed on as valid. *)
fqdnGroupKeepsFirst(acc, fqdn, irs) ==
    IF Len(irs) = 1
    THEN [acc EXCEPT !.valid = Append(@, irs[1])]
    ELSE [acc EXCEPT !.statuses = markConflicting(@, irs, fqdn, conflictMessage(fqdn, irs)),
                     !.valid = Append(@, irs[1])]

(* The switch on the number of roots that declare fqdn. *)
fqdnGroup(acc, fqdn, irs) ==
    IF Len(irs) = 1
    THEN [acc EXCEPT !.valid = Append(@, irs[1])]
    ELSE [acc EXCEPT !.statuses = markConflicting(@, irs, fqdn, conflictMessage(fqdn, irs))]

RECURSIVE rangeFqdns(_, _, _, _)
rangeFqdns(src, ord, ford, acc) ==
    IF ford = <<>> THEN acc
    ELSE LET fqdn == Head(ford)
             HasFqdn(i) == ~src[i].virtualhost.isnil /\ src[i].virtualhost.fqdn = fqdn
         IN rangeFqdns(src, ord, Tail(ford), fqdnGroup(acc, fqdn, SelectSeq(ord, HasFqdn)))

(* Mutant: the resources without a virtual host come after the roots. *)
validIngressRoutesRootsFirst(src, b, ord, ford) ==
    LET NoVhost(i) == src[i].virtualhost.isnil
        acc == rangeFqdns(src, ord, ford, [b EXCEPT !.valid = <<>>, !.pc = "compute"])
    IN [acc EXCEPT !.valid = @ \o SelectSeq(ord, NoVhost)]

validIngressRoutes(src, b, ord, ford) ==
    LET NoVhost(i) == src[i].virtualhost.isnil
    IN rangeFqdns(src, ord, ford, [b EXCEPT !.valid = SelectSeq(ord, NoVhost), !.pc = "compute"])

(* The orders a range over the resources, and over their FQDNs, can take. *)
FqdnKeys(src) == {src[i].virtualhost.fqdn : i \in {j \in DOMAIN src : ~src[j].virtualhost.isnil}}

(* computeIngressRoute for the head of the valid list. *)
computeIngressRoute(src, b0) ==
    LET id == Head(b0.valid)
        b == [b0 EXCEPT !.valid = Tail(@)]
        ir == src[id]
        vh == ir.virtualhost
        tls == vh.tls
        host == vh.fqdn
        sw == WithValue(NoValues, "vhost", host)
        passthrough == ~tls.isnil /\ tls.secretName = "" /\ tls.passthrough
        enforceTLS == ~tls.isnil /\ ~passthrough
        Invalid(vals, d) == [b EXCEPT !.statuses = commit(@, id, SetInvalid(vals, d))]
        b1 == IF enforceTLS
              THEN [b EXCEPT !.securevirtualhosts =
                        [lookupSecureVirtualHost(@, host) EXCEPT ![host].secret = tls.secretName]]
              ELSE b
        b2 == Call(b1, "routes", id, EmptyStr, NilSlice, host,
                   ir.tcpproxy.isnil /\ enforceTLS, sw, FALSE)
    IN IF vh.isnil THEN [b EXCEPT !.orphaned = @ \cup {id}]
       ELSE IF ~rootAllowed(id) THEN Invalid(NoValues, Desc(MsgRootNamespace, <<>>, <<>>))
       ELSE IF isBlank(host) THEN Invalid(NoValues, Desc(MsgFqdnBlank, <<>>, <<>>))
       ELSE IF enforceTLS /\ ~lookupSecret(tls.secretName)
            THEN Invalid(sw, Desc(MsgSecretInvalid, <<>>, <<>>))
       ELSE IF enforceTLS /\ ~delegationPermitted(tls.secretName, id)
            THEN Invalid(sw, Desc(MsgSecretDelegation, <<>>, <<>>))
       ELSE IF ~ir.tcpproxy.isnil /\ (passthrough \/ enforceTLS)
            THEN Call(b2, "tcp", id, EmptyStr, NilSlice, host, FALSE, sw, TRUE)
            ELSE b2

(* Mutant: the target is not appended to the reported path. *)
cyclePathNoTarget(visited, dest) == visited

(* The path reported for a cycle: the visited resources, then the target. *)
cyclePath(visited, dest) == Append(visited, dest)

(* Mutant: every resource some edge already reached counts as a cycle. *)
createsCycleReached(b, f, dest) == dest \notin b.orphaned

(* Mutant: the scan of visited is left out. *)
createsCycleNever(b, f, dest) == FALSE

(* The scan of visited for the target of an edge. *)
createsCycle(b, f, dest) ==
    LET visited == SliceElems(b.heap, f.visited)
    IN \E k \in DOMAIN visited : visited[k] = dest

(* Mutant: a validation failure ends the whole pass. *)
returnInvalidEndsPass(b, vals, d) == [Return(b, SetInvalid(vals, d)) EXCEPT !.valid = <<>>]

(* sw.SetInvalid(...) followed by return: the activation ends, the pass   *)
(* goes on with the caller.                                               *)
(* Mutant: SetInvalid without the return; the loop goes on to the next entry. *)
returnInvalidGoesOn(b, vals, d) ==
    [b EXCEPT !.stack[Len(b.stack)].i = @ + 1,
              !.stack[Len(b.stack)].sw = SetInvalid(vals, d)]

returnInvalid(b, vals, d) == Return(b, SetInvalid(vals, d))

(* processIngressRoutes, one pass of its loop over ir.Spec.Routes: the    *)
(* route entry at the top activation's position.                          *)
(* Mutant: the inherited prefix is not looked at. *)
outsidePrefixNever(match, prefixMatch) == FALSE

(* The test of a route with services against the prefix of the delegation *)
(* that led to its resource.                                              *)
outsidePrefix(match, prefixMatch) == ~matchesPathPrefix(match, prefixMatch)

processIngressRoutes(src, b) ==
    LET n == Len(b.stack)
        f == b.stack[n]
        ir == f.ir
        route == src[ir].routes[f.i]
        next == [b EXCEPT !.stack[n].i = f.i + 1]
        bad == FirstBad(route.services)
        conds == headerMatchConds(src[ir].routes, f.i)
        permitInsecure == route.permitInsecure
        r == [pathCondition |-> route.match,
              httpsUpgrade  |-> routeEnforceTLS(f.enforceTLS, permitInsecure),
              idleTimeout   |-> idleTimeout(route.idleTimeout).value,
              headerConditions |-> mergeHeaderConditions(conds),
              clusters      |-> [k \in DOMAIN route.services |-> Cluster(route.services[k])]]
        vhs == addRoute(lookupVirtualHost(b.virtualhosts, f.host), f.host, r)
        svhs == IF f.enforceTLS
                THEN addRoute(lookupSecureVirtualHost(b.securevirtualhosts, f.host), f.host, r)
                ELSE b.securevirtualhosts
        dest == route.delegate
        found == [next EXCEPT !.orphaned = @ \ {dest}]
        visited == SliceElems(b.heap, f.visited)
        path == cyclePath(visited, dest)
    IN IF Len(route.services) > 0 /\ route.delegate # NoDelegate
       THEN returnInvalid(b, f.sw, Desc(MsgBoth, <<>>, <<route.match>>))
       ELSE IF Len(route.services) > 0
       THEN IF outsidePrefix(route.match, f.prefixMatch)
            THEN returnInvalid(b, f.sw, Desc(MsgPrefix, <<>>, <<route.match, f.prefixMatch>>))
            ELSE IF idleTimeout(route.idleTimeout).invalid
            THEN returnInvalid(b, f.sw, Desc(MsgIdleTimeout, <<>>, <<route.match>>))
            ELSE IF ~headerConditionsValid(conds)
            THEN returnInvalid(b, f.sw, Desc(MsgHeaders, <<>>, <<>>))
            ELSE IF bad # 0
            THEN returnInvalid(b, f.sw,
                     IF route.services[bad].port < 1 \/ route.services[bad].port > MaxPort
                     THEN Desc(MsgPort, <<>>, <<route.match, <<route.services[bad].name>>>>)
                     ELSE IF ~lookupService(route.services[bad].name, route.services[bad].port)
                     THEN Desc(MsgService, <<route.services[bad].port>>, <<<<route.services[bad].name>>>>)
                     ELSE Desc(MsgServiceIdleTimeout, <<>>, <<route.match, <<route.services[bad].name>>>>))
            ELSE [next EXCEPT !.virtualhosts = vhs, !.securevirtualhosts = svhs]
       ELSE IF route.delegate = NoDelegate THEN next
       ELSE IF dest \notin DOMAIN src THEN next
       ELSE IF createsCycle(b, f, dest)
            THEN returnInvalid(found, f.sw, Desc(MsgCycle, path, <<>>))
            ELSE Call(found, "routes", dest, route.match, f.visited, f.host, f.enforceTLS,
                      NoValues, FALSE)

(* The end of processIngressRoutes' loop: sw.SetValid() and the return. *)
processIngressRoutesEnd(src, b) == Return(b, SetValid(Top(b).sw))

(* processIngressRouteTCPProxy, up to its return or its recursive call. *)
(* computeIngressRoute's "defer commit()": the root's writer, which the   *)
(* root's TCP activation shares with the pending routes activation, is    *)
(* committed when computeIngressRoute is left, by a return or by a panic. *)
deferredCommit(b) ==
    LET id == b.stack[1].ir
        sw == IF Len(b.stack) > 1 /\ b.stack[2].shared THEN b.stack[2].sw ELSE b.stack[1].sw
    IN [b EXCEPT !.statuses = commit(@, id, sw)]

(* A nil pointer dereference: the goroutine panics; the deferred calls of *)
(* the functions it unwinds run, and the pass is over without a result.   *)
panic(b) == [deferredCommit(b) EXCEPT !.pc = "panic"]

(* ir.Spec.TCPProxy is read without a nil check: only the root's call is  *)
(* guarded, a resource reached through a delegation without a tcpproxy    *)
(* block makes len(tcpproxy.Services) panic.                              *)
processIngressRouteTCPProxy(src, b) ==
    LET n == Len(b.stack)
        f == b.stack[n]
        ir == f.ir
        tcpproxy == src[ir].tcpproxy
        Missing(svc) == ~lookupService(svc.name, svc.port)
        missing == IF \E k \in DOMAIN tcpproxy.services : Missing(tcpproxy.services[k])
                   THEN Min({k \in DOMAIN tcpproxy.services : Missing(tcpproxy.services[k])})
                   ELSE 0
        proxy == [isnil |-> FALSE, clusters |-> tcpproxy.services]
        dest == tcpproxy.delegate
        called == [b EXCEPT !.stack[n].i = 2, !.orphaned = @ \ {dest}]
        found == [b EXCEPT !.orphaned = @ \ {dest}]
        visited == SliceElems(b.heap, f.visited)
        path == cyclePath(visited, dest)
    IN IF tcpproxy.isnil THEN panic(b)
       ELSE IF Len(tcpproxy.services) > 0 /\ tcpproxy.delegate # NoDelegate
       THEN returnInvalid(b, f.sw, Desc(MsgTCPBoth, <<>>, <<>>))
       ELSE IF Len(tcpproxy.services) > 0
       THEN IF missing # 0
            THEN returnInvalid(b, f.sw, Desc(MsgTCPService, <<ir, tcpproxy.services[missing].port>>,
                                             <<<<tcpproxy.services[missing].name>>>>))
            ELSE Return([b EXCEPT !.securevirtualhosts =
                             [lookupSecureVirtualHost(@, f.host) EXCEPT ![f.host].tcpproxy = proxy]],
                        SetValid(f.sw))
       ELSE IF tcpproxy.delegate = NoDelegate THEN Return(b, f.sw)
       ELSE IF dest \notin DOMAIN src THEN Return(b, f.sw)
       ELSE IF createsCycle(b, f, dest)
            THEN returnInvalid(found, f.sw, Desc(MsgTCPCycle, path, <<>>))
            ELSE Call(called, "tcp", dest, EmptyStr, f.visited, f.host, FALSE, f.sw, FALSE)

(* buildDAG: the resources still in the orphaned set get the Orphaned status. *)
RECURSIVE markOrphaned(_, _)
markOrphaned(sts, ids) ==
    IF ids = <<>> THEN sts
    ELSE markOrphaned(
             commit(sts, Head(ids),
                    WithValue(WithValue(NoValues, "status", StatusOrphaned),
                              "description", Desc(MsgOrphaned, <<>>, <<>>))),
             Tail(ids))

buildDAG(src, b) ==
    [b EXCEPT !.statuses = markOrphaned(@, SortedSeq(b.orphaned \cap DOMAIN src)), !.pc = "done"]

(* --------------------------- input snapshots -------------------------- *)
(* Route entries are dealt to the resources in order: es are the entries  *)
(* and own[j] is the resource that lists es[j].                           *)
Max(S) == CHOOSE x \in S : \A y \in S : x >= y

Grouped(own) == \A j \in 1..(Len(own) - 1) : own[j] <= own[j + 1]

RoutesOf(a, id) ==
    LET idx == {j \in DOMAIN a.es : a.own[j] = id}
    IN IF idx = {} THEN <<>> ELSE SubSeq(a.es, Min(idx), Max(idx))

Assignments(K, n) ==
    UNION {{[es |-> e, own |-> o] : e \in [1..k -> K], o \in {o \in [1..k -> Ids] : Grouped(o)}} :
           k \in 0..n}

Svc1 == <<Service("s1", 80)>>
SvcMissing == <<Service("nosvc", 80)>>
Absent == NumResources + 1

(* Delegation structures under one root: terminal entries, entries that   *)
(* list both services and a delegate, edges to every resource under /a,   *)
(* and a second edge to resource 2 under /b, so that a resource can be    *)
(* reached on two paths with different prefixes.                          *)
DelegationKinds ==
    {RouteEntry(PathA, Svc1, NoDelegate), RouteEntry(PathA, Svc1, 1)}
        \cup {RouteEntry(PathA, <<>>, t) : t \in Ids}
        \cup {RouteEntry(PathB, <<>>, 2)}

DelegationInputs ==
    {[id \in Ids |-> IngressRoute(IF id = 1 THEN VirtualHostOf(HostA, NoTLS) ELSE NoVirtualHost,
                                  RoutesOf(a, id), NoTCPProxy)] :
     a \in Assignments(DelegationKinds, MaxEntries)}

(* Every way to declare the FQDNs, with a few entries: terminal under /a  *)
(* and under /b, failing (missing service), edges to every resource and   *)
(* to an absent one; a root with a /b entry is accepted in its own pass   *)
(* and refused when another root delegates /a to it.                      *)
FqdnKinds ==
    {RouteEntry(PathA, Svc1, NoDelegate), RouteEntry(PathB, Svc1, NoDelegate),
     RouteEntry(PathB, SvcMissing, NoDelegate)}
        \cup {RouteEntry(PathA, <<>>, t) : t \in Ids \cup {Absent}}

FqdnInputs ==
    {[id \in Ids |-> IngressRoute(vh[id], RoutesOf(a, id), NoTCPProxy)] :
     vh \in [Ids -> {NoVirtualHost, VirtualHostOf(HostA, NoTLS), VirtualHostOf(HostB, NoTLS)}],
     a \in Assignments(FqdnKinds, MaxFqdnEntries)}

(* TLS roots with TCP proxy blocks on every resource. *)
TCPKinds ==
    {NoTCPProxy, TCPProxyOf(<<>>, NoDelegate), TCPProxyOf(Svc1, NoDelegate),
     TCPProxyOf(SvcMissing, NoDelegate), TCPProxyOf(Svc1, 1)}
        \cup {TCPProxyOf(<<>>, t) : t \in Ids}

TCPInputs ==
    {[id \in Ids |-> IngressRoute(IF id = 1 THEN VirtualHostOf(HostA, tls) ELSE NoVirtualHost,
                                  IF id = 1 THEN rs ELSE <<>>, tp[id])] :
     tls \in {NoTLS, TLSPassthrough, TLSSecret("sec"), TLSSecret("nosec")},
     rs \in {<<RouteEntry(PathA, Svc1, NoDelegate)>>},
     tp \in [Ids -> TCPKinds]}

(* Delegation by TCP proxy blocks alone, under a TLS root. *)
TCPDelegationInputs ==
    {[id \in Ids |-> IngressRoute(IF id = 1 THEN VirtualHostOf(HostA, tls) ELSE NoVirtualHost,
                                  IF id = 1 THEN rs ELSE <<>>, tp[id])] :
     tls \in {TLSPassthrough, TLSSecret("sec")},
     rs \in {<<RouteEntry(PathA, <<>>, Absent)>>},
     tp \in [Ids -> {NoTCPProxy} \cup {TCPProxyOf(<<>>, t) : t \in Ids}]}

(* Idle timeouts: a root whose first entry delegates to resource 2 and    *)
(* whose second entry lists two services, and resource 2 with one entry   *)
(* of one service; the entries and the services request every kind of     *)
(* idle timeout: none, malformed, negative, zero, a minute, an hour and   *)
(* more than an hour.                                                     *)
TimeoutValues == {NoDuration, MalformedDuration} \cup {Duration(m) : m \in {0 - 1, 0, 1, Hour, Hour + 1}}
FewTimeoutValues == {NoDuration} \cup {Duration(m) : m \in {0, 1, Hour + 1}}

TimeoutInputs ==
    {[id \in Ids |->
        IF id = 1
        THEN IngressRoute(VirtualHostOf(HostA, tls),
                          <<RouteEntryWithTimeout(PathA, <<>>, 2, td),
                            RouteEntryWithTimeout(PathB, <<ServiceWithTimeout(n1, 80, ts1),
                                                           ServiceWithTimeout("s2", 80, ts2)>>,
                                                  NoDelegate, tr)>>,
                          NoTCPProxy)
        ELSE IF id = 2
        THEN IngressRoute(NoVirtualHost,
                          <<RouteEntryWithTimeout(PathA, <<ServiceWithTimeout("s1", 80, cs)>>,
                                                  NoDelegate, cr)>>,
                          NoTCPProxy)
        ELSE IngressRoute(NoVirtualHost, <<>>, NoTCPProxy)] :
     tls \in {NoTLS, TLSSecret("sec")}, td \in {NoDuration, Duration(0)},
     n1 \in {"s1", "nosvc"}, tr \in TimeoutValues, ts1 \in TimeoutValues,
     ts2 \in {NoDuration, Duration(0)}, cr \in FewTimeoutValues, cs \in FewTimeoutValues}

(* Header conditions: a root with two entries of one path prefix, each    *)
(* to its own service, with up to two header conditions each: exact       *)
(* matches on two header names with two values, and a presence match.     *)
HeaderConditions ==
    {HeaderCondition(n, e, FALSE) : n \in {"x", "y"}, e \in {"foo", "bar"}}
        \cup {HeaderCondition("x", "", TRUE)}
HeaderMatches == UNION {[1..k -> HeaderConditions] : k \in 0..MaxHeaders}

HeaderInputs ==
    {[id \in Ids |->
        IF id = 1
        THEN IngressRoute(VirtualHostOf(HostA, tls),
                          <<RouteEntryWithHeaders(PathA, <<Service("s1", 80)>>, hm1),
                            RouteEntryWithHeaders(PathA, <<Service("s2", 80)>>, hm2)>>,
                          NoTCPProxy)
        ELSE IngressRoute(NoVirtualHost, <<>>, NoTCPProxy)] :
     tls \in {NoTLS, TLSSecret("sec")}, hm1 \in HeaderMatches, hm2 \in HeaderMatches}

(* Chains of delegation: the root delegates a prefix to resource 2 and    *)
(* then lists a service; resource 2 lists a service, then has an entry    *)
(* that lists a service, or a service and a delegate, or a missing        *)
(* service, and then delegates a prefix to resource 3, which lists a      *)
(* service.  The paths are /a, /b, /a/c and /ab; every entry has its own  *)
(* service port.                                                          *)
PathAC == <<"/", "a", "/", "c">>
PathAb == <<"/", "a", "b">>
ChainPaths == {PathA, PathB, PathAC, PathAb}
ChainMiddles ==
    {RouteEntry(q, <<Service("s2", 83)>>, NoDelegate) : q \in ChainPaths}
        \cup {RouteEntry(PathA, <<Service("s2", 83)>>, 3),
              RouteEntry(PathA, <<Service("nosvc", 83)>>, NoDelegate)}

ChainInputs ==
    {[id \in Ids |->
        IF id = 1
        THEN IngressRoute(VirtualHostOf(HostA, NoTLS),
                          <<RouteEntry(e1, <<>>, 2), RouteEntry(PathB, <<Service("s1", 81)>>, NoDelegate)>>,
                          NoTCPProxy)
        ELSE IF id = 2
        THEN IngressRoute(NoVirtualHost,
                          <<RouteEntry(p2, <<Service("s1", 82)>>, NoDelegate), mid,
                            RouteEntry(e2, <<>>, 3)>>,
                          NoTCPProxy)
        ELSE IF id = 3
        THEN IngressRoute(NoVirtualHost, <<RouteEntry(p3, <<Service("s2", 84)>>, NoDelegate)>>,
                          NoTCPProxy)
        ELSE IngressRoute(NoVirtualHost, <<>>, NoTCPProxy)] :
     e1 \in {PathA, PathB}, p2 \in ChainPaths, mid \in ChainMiddles,
     e2 \in {PathA, PathB, PathAC}, p3 \in ChainPaths}

(* The inputs of a pass: a snapshot of one of the families above. *)
IsInput(s) ==
    \/ s \in ChainInputs
    \/ s \in DelegationInputs
    \/ s \in FqdnInputs
    \/ s \in TCPInputs
    \/ s \in TimeoutInputs
    \/ s \in HeaderInputs

(* ------------------------------ the state ----------------------------- *)
VARIABLES src, pc, valid, statuses, orphaned, virtualhosts, securevirtualhosts, stack, heap

(* The listener cache: the mutex mu (its holder, 0 when free), the dynamic *)
(* and the static table, the version counter of the embedded Cond, and    *)
(* for every goroutine that uses the cache its position (cpc), the        *)
(* operation it is in (cop), that operation's argument (v for Update,     *)
(* names for Query) and the value it last got back (ret).                 *)
VARIABLES mu, values, staticValues, last, cpc, cop, v, names, ret

(* The wait for the next version: the goroutines blocked in WaitForNext,  *)
(* the version each caller said it had seen, and the version a goroutine  *)
(* got from its last operation (WaitForNext's result, or the counter as   *)
(* Notify left it for an Update; 0 if none).                              *)
VARIABLES waiters, lastSeen, next

waitVars == <<waiters, lastSeen, next>>

(* The listener visitor: the graph it walks (root), its configuration     *)
(* (lvc), the visitor itself (lv: the secure listener's filter chains and *)
(* the http flag), the vertices the walk has still to visit, the position *)
(* of visitListeners (vpc) and the map it returned (lret).                *)
VARIABLES root, lvc, lv, tovisit, vpc, lret

visitorVars == <<root, lvc, lv, tovisit, vpc, lret>>

(* weightedClusters: the services it is called with, the weighted        *)
(* cluster it builds, the running total, and its position (wpc).          *)
VARIABLES services, wc, total, wpc

routeVars == <<services, wc, total, wpc>>

(* The status writer of the store: the status each resource of the store  *)
(* carries, the number of writes issued to the store, the number of       *)
(* SetStatus calls made, and the last call (its resource, status and      *)
(* description, and the status the resource carried when it was made).    *)
VARIABLES objects, writes, setcalls, lastset

statusVars == <<objects, writes, setcalls, lastset>>

(* What neither the builder nor the cache touches. *)
outerVars == <<visitorVars, routeVars, statusVars>>

builderVars == <<src, pc, valid, statuses, orphaned, virtualhosts, securevirtualhosts, stack, heap>>

cacheVars == <<mu, values, staticValues, last, cpc, cop, v, names, ret, waitVars>>

vars == <<builderVars, cacheVars, outerVars>>

(* --------------------------- listener cache --------------------------- *)
Procs == 1..NumProcs

(* The listener names, in lexical order. *)
ENVOY_HTTP_LISTENER == "ingress_http"
ENVOY_HTTPS_LISTENER == "ingress_https"
OtherName == "other"
NameOrder == <<ENVOY_HTTP_LISTENER, ENVOY_HTTPS_LISTENER, OtherName>>

Rank(n) == CHOOSE k \in DOMAIN NameOrder : NameOrder[k] = n

(* A listener: its name and the rest of its content. *)
Listener(n, c) == [name |-> n, content |-> c]

NoListeners == [k \in {} |-> 0]

(* The maps a visitListeners pass can hand to Update (keyed by the        *)
(* listeners' names), and the static tables.                              *)
ListenerMaps ==
    UNION {{[n \in S |-> Listener(n, f[n])] : f \in [S -> {1, 2}]} :
           S \in SUBSET {ENVOY_HTTP_LISTENER, ENVOY_HTTPS_LISTENER}}

StaticTables == {NoListeners, [n \in {ENVOY_HTTPS_LISTENER} |-> Listener(n, 0)]}

NameLists == UNION {[1..k -> Range(NameOrder)] : k \in 0..MaxNames}

(* sort.Stable(sorter.For(values)): listeners are ordered by name and     *)
(* listeners of one name keep their order.                                *)
Less(a, b) == Rank(a.name) < Rank(b.name)

RECURSIVE insertStable(_, _)
insertStable(s, x) ==
    IF s = <<>> THEN <<x>>
    ELSE IF Less(x, Last(s))
         THEN Append(insertStable(SubSeq(s, 1, Len(s) - 1), x), Last(s))
         ELSE Append(s, x)

RECURSIVE sortStable(_)
sortStable(s) ==
    IF s = <<>> THEN <<>>
    ELSE insertStable(sortStable(SubSeq(s, 1, Len(s) - 1)), Last(s))

(* Mutant: the supplied map is merged into the table. *)
UpdateMerging(vals, m) == [n \in DOMAIN m \cup DOMAIN vals |-> IF n \in DOMAIN m THEN m[n] ELSE vals[n]]

(* Update: c.values = v. *)
Update(vals, m) == m

(* Cond.Notify: the version counter moves on (and the waiters are woken). *)
Notify(l) == l + 1

(* Mutant: Notify wakes one of the blocked readers only. *)
WokenOne(ws) == IF ws = {} THEN {} ELSE {CHOOSE p \in ws : TRUE}

(* The blocked readers that Notify wakes: all of them. *)
Woken(ws) == ws

(* Contents: the values of both tables, each ranged over in some order,   *)
(* appended and sorted.                                                   *)
Contents(vals, statics, ord, sord) ==
    sortStable([k \in 1..Len(ord) |-> vals[ord[k]]] \o [k \in 1..Len(sord) |-> statics[sord[k]]])

(* Mutant: the static table is looked up before the dynamic one. *)
RECURSIVE queryLoopStaticFirst(_, _, _, _)
queryLoopStaticFirst(vals, statics, ns, acc) ==
    IF ns = <<>> THEN acc
    ELSE LET n == Head(ns)
         IN queryLoopStaticFirst(vals, statics, Tail(ns),
                                 IF n \in DOMAIN statics THEN Append(acc, statics[n])
                                 ELSE IF n \in DOMAIN vals THEN Append(acc, vals[n])
                                 ELSE acc)

(* Query: the loop over names, then the sort. *)
RECURSIVE queryLoop(_, _, _, _)
queryLoop(vals, statics, ns, acc) ==
    IF ns = <<>> THEN acc
    ELSE LET n == Head(ns)
         IN queryLoop(vals, statics, Tail(ns),
                      IF n \in DOMAIN vals THEN Append(acc, vals[n])
                      ELSE IF n \in DOMAIN statics THEN Append(acc, statics[n])
                      ELSE acc)

Query(vals, statics, ns) == sortStable(queryLoop(vals, statics, ns, <<>>))

(* The cache after NewListenerCache, with no goroutine in it; the         *)
(* goroutines after the first n have not been started ("off").            *)
Started(n) == [p \in Procs |-> IF p <= n THEN "idle" ELSE "off"]

CacheIdle ==
    /\ mu = 0
    /\ values = NoListeners
    /\ last = 0
    /\ cop = [p \in Procs |-> "none"]
    /\ v = [p \in Procs |-> NoListeners]
    /\ names = [p \in Procs |-> <<>>]
    /\ ret = [p \in Procs |-> <<>>]
    /\ waiters = {}
    /\ lastSeen = [p \in Procs |-> 0]
    /\ next = [p \in Procs |-> 0]

(* --------------------------- listener visitor -------------------------- *)
(* A host name is a natural number whose numeric order is the lexical     *)
(* order of the FQDN; 0 stands for the empty string.  A secret, a         *)
(* validation context and a TCP target are natural numbers, nil is 0.     *)
nil == 0
NoServerName == 0
HostNames == 1..MaxHosts
ListenerSecrets == 1..NumSecrets

(* envoy_api_v2_auth.TlsParameters_TlsProtocol *)
TLS_AUTO == 0
TLSv1_1 == 2
TLSv1_3 == 4

ENVOY_FALLBACK_ROUTECONFIG == "ingress_fallbackcert"
FallbackCertificateName == "fallback-certificate"
HTTPConnectionManagerName == "envoy.http_connection_manager"
TCPProxyName == "envoy.tcp_proxy"
ALPNProtos == <<"h2", "http/1.1">>

(* Mutant: the configured version is taken as it is, without the floor. *)
minProtoVersionNoFloor(c) == c.MinimumProtocolVersion

(* ListenerVisitorConfig.minProtoVersion *)
minProtoVersion(c) ==
    IF c.MinimumProtocolVersion > TLSv1_1 THEN c.MinimumProtocolVersion ELSE TLSv1_1

max(a, b) == IF a > b THEN a ELSE b

maxProtoVersion(version) == IF version = TLS_AUTO THEN TLSv1_3 ELSE version

(* The TLS context of a filter chain: the certificate, the protocol       *)
(* versions, the client validation and the ALPN protocols.                *)
DownstreamTLSContext(secret, tlsMinProtoVersion, peerValidationContext, alpnProtos) ==
    [Secret |-> secret, TlsMinimumProtocolVersion |-> tlsMinProtoVersion,
     TlsMaximumProtocolVersion |-> TLSv1_3, ValidationContext |-> peerValidationContext,
     AlpnProtocols |-> alpnProtos]

DownstreamTLSContextAdobe(secret, tlsMinProtoVersion, tlsMaxProtoVersion, peerValidationContext, alpnProtos) ==
    [DownstreamTLSContext(secret, tlsMinProtoVersion, peerValidationContext, alpnProtos)
        EXCEPT !.TlsMaximumProtocolVersion = tlsMaxProtoVersion]

(* The filters: an HTTP connection manager bound to a route               *)
(* configuration, or a TCP proxy to a target.                             *)
Router == "envoy.router"

(* httpConnectionManagerBuilder.DefaultFilters: the four HTTP filters are *)
(* appended to those the builder has.                                     *)
DefaultFilters(filters) ==
    filters \o <<"envoy.filters.http.ip_allow_deny", "envoy.filters.http.health_check_simple",
                 "envoy.filters.http.header_size", Router>>

(* httpConnectionManagerBuilder.Get: the connection manager carries the   *)
(* HTTP filters the builder was given.                                    *)
Get(routename, filters) ==
    [Name |-> HTTPConnectionManagerName, RouteConfigName |-> routename, Cluster |-> nil,
     HttpFilters |-> filters]

HTTPConnectionManager(routename) == Get(routename, DefaultFilters(<<>>))

TCPProxyFilter(proxy) ==
    [Name |-> TCPProxyName, RouteConfigName |-> "", Cluster |-> proxy, HttpFilters |-> <<>>]

Filters(f) == <<f>>

(* A filter chain; TransportSocket is <<>> for none, else <<context>>. *)
FilterChainTLS(domain, downstream, filters) ==
    [Name |-> "", Filters |-> filters, ServerNames |-> <<domain>>,
     TransportProtocol |-> "", TransportSocket |-> downstream]

FilterChainTLSFallback(downstream, filters) ==
    [Name |-> FallbackCertificateName, Filters |-> filters, ServerNames |-> <<>>,
     TransportProtocol |-> "tls", TransportSocket |-> downstream]

ContainsFallbackFilterChain(filterchains) ==
    \E i \in DOMAIN filterchains : filterchains[i].Name = FallbackCertificateName

isTCPProxyFilter(filters) == \E i \in DOMAIN filters : filters[i].Name = TCPProxyName

(* Mutant: the name is appended and the list left as it is. *)
appendServerNameUnsorted(serverNames, name) == Append(serverNames, name)

(* The host's name joins a chain's server names, which are sorted again. *)
appendServerName(serverNames, name) == sortStrings(Append(serverNames, name))

(* The scan of the secure listener's chains for one that carries the     *)
(* same TLS context, from chain i on.                                    *)
RECURSIVE groupFilterChain(_, _, _, _)
groupFilterChain(fcs, i, downstreamTLS, name) ==
    IF i > Len(fcs) THEN [fcExists |-> FALSE, FilterChains |-> fcs]
    ELSE IF fcs[i].TransportSocket = <<>> THEN groupFilterChain(fcs, i + 1, downstreamTLS, name)
    ELSE IF isTCPProxyFilter(fcs[i].Filters) THEN groupFilterChain(fcs, i + 1, downstreamTLS, name)
    ELSE IF downstreamTLS = fcs[i].TransportSocket
         THEN [fcExists |-> TRUE,
               FilterChains |-> [fcs EXCEPT ![i].ServerNames = appendServerName(@, name)]]
         ELSE groupFilterChain(fcs, i + 1, downstreamTLS, name)

(* visit, case *dag.VirtualHost *)
visitVirtualHost(l) == [l EXCEPT !.http = TRUE]

(* visit, case *dag.SecureVirtualHost: vh is the host called name. *)
visitSecureVirtualHost(l, name, vh, c) ==
    LET alpnProtos == IF vh.TCPProxy = nil THEN ALPNProtos ELSE <<>>
        filters == IF vh.TCPProxy = nil
                   THEN Filters(HTTPConnectionManager(ENVOY_HTTPS_LISTENER))
                   ELSE Filters(TCPProxyFilter(vh.TCPProxy))
        downstreamTLS ==
            IF vh.Secret # nil
            THEN <<DownstreamTLSContextAdobe(vh.Secret,
                                             max(minProtoVersion(c), vh.MinProtoVersion),
                                             maxProtoVersion(vh.MaxProtoVersion),
                                             vh.DownstreamValidation, alpnProtos)>>
            ELSE <<>>
        grouped == IF vh.TCPProxy = nil /\ vh.Secret # nil
                   THEN groupFilterChain(l.FilterChains, 1, downstreamTLS, name)
                   ELSE [fcExists |-> FALSE, FilterChains |-> l.FilterChains]
        chains == IF grouped.fcExists THEN grouped.FilterChains
                  ELSE Append(l.FilterChains, FilterChainTLS(name, downstreamTLS, filters))
    IN IF vh.FallbackCertificate # nil /\ ~ContainsFallbackFilterChain(chains)
       THEN [l EXCEPT !.FilterChains =
                Append(chains,
                       FilterChainTLSFallback(
                           <<DownstreamTLSContext(vh.FallbackCertificate, minProtoVersion(c),
                                                  vh.DownstreamValidation, alpnProtos)>>,
                           Filters(Get(ENVOY_FALLBACK_ROUTECONFIG, <<>>))))]
       ELSE [l EXCEPT !.FilterChains = chains]

(* A vertex of the graph is an insecure virtual host or a secure one. *)
VirtualHost == [kind |-> "VirtualHost", name |-> NoServerName]
SecureVirtualHost(n) == [kind |-> "SecureVirtualHost", name |-> n]

visit(l, vertex, g, c) ==
    IF vertex.kind = "VirtualHost" THEN visitVirtualHost(l)
    ELSE visitSecureVirtualHost(l, vertex.name, g.secure[vertex.name], c)

(* The secrets of the graph: those its secure hosts refer to. *)
visitSecretsAsDag(g) ==
    ({g.secure[n].Secret : n \in DOMAIN g.secure}
        \cup {g.secure[n].FallbackCertificate : n \in DOMAIN g.secure}) \ {nil}

(* The order of the filter chains: by first server name, a chain without *)
(* server names after every chain that has some.                         *)
filterChainLess(a, b) ==
    IF a.ServerNames = <<>> THEN FALSE
    ELSE IF b.ServerNames = <<>> THEN TRUE
    ELSE a.ServerNames[1] < b.ServerNames[1]

RECURSIVE insertFilterChain(_, _)
insertFilterChain(s, x) ==
    IF s = <<>> THEN <<x>>
    ELSE IF filterChainLess(x, Last(s))
         THEN Append(insertFilterChain(SubSeq(s, 1, Len(s) - 1), x), Last(s))
         ELSE Append(s, x)

RECURSIVE sortFilterChains(_)
sortFilterChains(s) ==
    IF s = <<>> THEN <<>>
    ELSE insertFilterChain(sortFilterChains(SubSeq(s, 1, Len(s) - 1)), Last(s))

(* The visitor visitListeners starts with: the secure listener without   *)
(* filter chains, no insecure host seen.                                 *)
newListenerVisitor == [FilterChains |-> <<>>, http |-> FALSE]

NoListenerMap == [n \in {} |-> <<>>]

(* visitListeners after lv.visit(root): the insecure listener if an      *)
(* insecure host was seen, the catch-all chain of the default            *)
(* certificate, and the secure listener dropped if it has no chain, its  *)
(* chains sorted otherwise.  The result maps a listener's name to its    *)
(* filter chains.                                                        *)
visitListenersEnd(l, g, c) ==
    LET fcNoSNI == FilterChainTLS(NoServerName,
                                  <<DownstreamTLSContext(c.DefaultCertificate, minProtoVersion(c),
                                                         nil, ALPNProtos)>>,
                                  Filters(HTTPConnectionManager(ENVOY_HTTPS_LISTENER)))
        chains == IF c.DefaultCertificate # nil /\ c.DefaultCertificate \in visitSecretsAsDag(g)
                  THEN Append(l.FilterChains, fcNoSNI)
                  ELSE l.FilterChains
        present == (IF l.http THEN {ENVOY_HTTP_LISTENER} ELSE {})
                       \cup (IF Len(chains) = 0 THEN {} ELSE {ENVOY_HTTPS_LISTENER})
    IN [n \in present |->
            IF n = ENVOY_HTTP_LISTENER
            THEN <<[Name |-> "", Filters |-> Filters(HTTPConnectionManager(ENVOY_HTTP_LISTENER)),
                    ServerNames |-> <<>>, TransportProtocol |-> "", TransportSocket |-> <<>>]>>
            ELSE sortFilterChains(chains)]

(* The walk over the vertices in a given order, and the whole of         *)
(* visitListeners for that order.                                        *)
RECURSIVE visitAll(_, _, _, _)
visitAll(l, order, g, c) ==
    IF order = <<>> THEN l ELSE visitAll(visit(l, Head(order), g, c), Tail(order), g, c)

Vertices(g) ==
    {SecureVirtualHost(n) : n \in DOMAIN g.secure} \cup (IF g.insecure THEN {VirtualHost} ELSE {})

visitListeners(g, c, order) == visitListenersEnd(visitAll(newListenerVisitor, order, g, c), g, c)

(* The graphs and the configurations the visitor is run on.  A secure    *)
(* host terminates TLS with a secret, or passes TLS through to a TCP     *)
(* target and then has nothing else set.  The hosts leave the protocol   *)
(* versions to the configuration, whose floor varies.                    *)
MinProtoVersions == {TLSv1_1}
MaxProtoVersions == {TLS_AUTO}
Passthrough ==
    [Secret |-> nil, MinProtoVersion |-> TLS_AUTO, MaxProtoVersion |-> TLS_AUTO,
     DownstreamValidation |-> nil, TCPProxy |-> 1, FallbackCertificate |-> nil]
Terminating ==
    [Secret : ListenerSecrets, MinProtoVersion : MinProtoVersions, MaxProtoVersion : MaxProtoVersions,
     DownstreamValidation : {nil, 1}, TCPProxy : {nil, 1}, FallbackCertificate : {nil, 1}]
SecureHosts == {Passthrough} \cup Terminating
Graphs ==
    [secure : UNION {[S -> SecureHosts] : S \in SUBSET HostNames}, insecure : BOOLEAN]
Configs == [MinimumProtocolVersion : {TLS_AUTO, TLSv1_1 + 1}, DefaultCertificate : {nil, 1}]

NoGraph == [secure |-> [n \in {} |-> Passthrough], insecure |-> FALSE]
NoConfig == [MinimumProtocolVersion |-> TLS_AUTO, DefaultCertificate |-> nil]

VisitorIdle ==
    /\ root = NoGraph
    /\ lvc = NoConfig
    /\ lv = newListenerVisitor
    /\ tovisit = {}
    /\ vpc = "idle"
    /\ lret = NoListenerMap

(* ------------------- weighted clusters (envoy/route.go) ---------------- *)
(* A service is its cluster's name (a natural number in lexical order)   *)
(* and its weight, an int that nothing keeps from being negative.        *)
ClusterNames == 1..NumClusterNames
Weights == (0 - MaxNegativeWeight)..MaxWeight
HTTPService(n, w) == [Name |-> n, Weight |-> w]
ServiceLists ==
    UNION {[1..k -> [Name : ClusterNames, Weight : Weights]] : k \in 0..MaxServices}

Clustername(service) == service.Name

(* uint32(val): the low 32 bits of val as an unsigned number, kept as    *)
(* its two 16-bit halves (the number is hi * 2^16 + lo), so that         *)
(* uint32(-1) is 4294967295, hi = lo = 65535.                            *)
Half == 2^16
u32(val) == [hi |-> (val \div Half) % Half, lo |-> val % Half]

(* The order of two uint32 values. *)
u32Less(a, b) == a.hi < b.hi \/ (a.hi = b.hi /\ a.lo < b.lo)

ClusterWeight(service) == [Name |-> Clustername(service), Weight |-> u32(service.Weight)]

(* clusterWeightByName.Less *)
clusterWeightByName(a, b) ==
    IF a.Name = b.Name THEN u32Less(a.Weight, b.Weight) ELSE a.Name < b.Name

RECURSIVE insertClusterWeight(_, _)
insertClusterWeight(s, x) ==
    IF s = <<>> THEN <<x>>
    ELSE IF clusterWeightByName(x, Last(s))
         THEN Append(insertClusterWeight(SubSeq(s, 1, Len(s) - 1), x), Last(s))
         ELSE Append(s, x)

RECURSIVE sortClusterWeights(_)
sortClusterWeights(s) ==
    IF s = <<>> THEN <<>>
    ELSE insertClusterWeight(sortClusterWeights(SubSeq(s, 1, Len(s) - 1)), Last(s))

(* One turn of the loop over the services. *)
weightedClustersAppend(w, tot, service) ==
    [wc |-> [w EXCEPT !.Clusters = Append(@, ClusterWeight(service))],
     total |-> tot + service.Weight]

(* After the loop: the even split if no weight was given, the total, the *)
(* sort.                                                                 *)
weightedClustersEnd(w, tot, n) ==
    LET cs == IF tot = 0
              THEN [i \in DOMAIN w.Clusters |-> [w.Clusters[i] EXCEPT !.Weight = u32(1)]]
              ELSE w.Clusters
        t == IF tot = 0 THEN n ELSE tot
    IN [Clusters |-> sortClusterWeights(cs), TotalWeight |-> u32(t)]

NoWeightedCluster == [Clusters |-> <<>>, TotalWeight |-> u32(0)]

RECURSIVE weightedClustersLoop(_, _, _)
weightedClustersLoop(w, tot, svcs) ==
    IF svcs = <<>> THEN [wc |-> w, total |-> tot]
    ELSE LET r == weightedClustersAppend(w, tot, Head(svcs))
         IN weightedClustersLoop(r.wc, r.total, Tail(svcs))

weightedClusters(svcs) ==
    LET r == weightedClustersLoop(NoWeightedCluster, 0, svcs)
    IN weightedClustersEnd(r.wc, r.total, Len(svcs))

RouteIdle ==
    /\ services = <<>>
    /\ wc = NoWeightedCluster
    /\ total = 0
    /\ wpc = "idle"

(* ------------------------ the status of a resource -------------------- *)
(* SetStatus(status, desc, existing): nothing is written when the         *)
(* resource already carries the status and the description; otherwise     *)
(* one write replaces them.                                               *)
Status(st, d) == [currentStatus |-> st, description |-> d]
StatusValues ==
    {Status(st, d) : st \in {"", StatusValid, StatusInvalid}, d \in {"", "this is a valid IR", "boo hiss"}}

(* Mutant: the write is issued whatever the resource carries. *)
SetStatusAlways(st, d, existing) == [write |-> TRUE, object |-> Status(st, d)]

SetStatus(st, d, existing) ==
    IF existing.currentStatus = st /\ existing.description = d
    THEN [write |-> FALSE, object |-> existing]
    ELSE [write |-> TRUE, object |-> Status(st, d)]

NoSetCall == [id |-> 0, st |-> "", d |-> "", existing |-> Status("", "")]

StatusIdle ==
    /\ objects = <<>>
    /\ writes = 0
    /\ setcalls = 0
    /\ lastset = NoSetCall

OuterIdle == VisitorIdle /\ RouteIdle /\ StatusIdle

NoStatuses == [k \in {} |-> 0]
NoHosts == [k \in {} |-> 0]
NoHeap == [k \in {} |-> 0]

(* The builder after reset(). *)
NewBuilder == [pc |-> "valid", valid |-> <<>>, statuses |-> NoStatuses, orphaned |-> {},
               virtualhosts |-> NoHosts, securevirtualhosts |-> NoHosts,
               stack |-> <<>>, heap |-> NoHeap]

B == [pc |-> pc, valid |-> valid, statuses |-> statuses, orphaned |-> orphaned,
      virtualhosts |-> virtualhosts, securevirtualhosts |-> securevirtualhosts,
      stack |-> stack, heap |-> heap]

Becomes(b) ==
    /\ pc' = b.pc
    /\ valid' = b.valid
    /\ statuses' = b.statuses
    /\ orphaned' = b.orphaned
    /\ virtualhosts' = b.virtualhosts
    /\ securevirtualhosts' = b.securevirtualhosts
    /\ stack' = b.stack
    /\ heap' = b.heap
    /\ src' = src
    /\ UNCHANGED <<cacheVars, outerVars>>

(* One step of the pass after validIngressRoutes, and the whole pass      *)
(* (Build: computeIngressRoutes, then buildDAG) for given range orders.   *)
Step(s, b) ==
    IF b.stack = <<>>
    THEN IF b.valid # <<>> THEN computeIngressRoute(s, b) ELSE buildDAG(s, b)
    ELSE IF Top(b).fn = "tcp" THEN processIngressRouteTCPProxy(s, b)
    ELSE IF Top(b).i <= Len(s[Top(b).ir].routes) THEN processIngressRoutes(s, b)
    ELSE processIngressRoutesEnd(s, b)

RECURSIVE Run(_, _)
Run(s, b) == IF b.pc \in {"done", "panic"} THEN b ELSE Run(s, Step(s, b))

Build(s, ord, ford) == Run(s, validIngressRoutes(s, NewBuilder, ord, ford))

(* What a pass hands on: the graph and the statuses. *)
Result(b) == [virtualhosts |-> b.virtualhosts, securevirtualhosts |-> b.securevirtualhosts,
              statuses |-> b.statuses]

Init ==
    /\ IsInput(src)
    /\ pc = "valid"
    /\ valid = <<>>
    /\ statuses = NoStatuses
    /\ orphaned = {}
    /\ virtualhosts = NoHosts
    /\ securevirtualhosts = NoHosts
    /\ stack = <<>>
    /\ heap = NoHeap
    /\ CacheIdle
    /\ cpc = Started(0)
    /\ staticValues = NoListeners
    /\ OuterIdle

(* Which branch of the loop body the route entry at hand takes. *)
RouteCase(s, b) ==
    LET f == Top(b)
        route == s[f.ir].routes[f.i]
    IN IF Len(route.services) > 0 /\ route.delegate # NoDelegate THEN "invalid"
       ELSE IF Len(route.services) > 0
       THEN IF /\ ~outsidePrefix(route.match, f.prefixMatch)
               /\ ~idleTimeout(route.idleTimeout).invalid
               /\ headerConditionsValid(headerMatchConds(s[f.ir].routes, f.i))
               /\ FirstBad(route.services) = 0
            THEN "services" ELSE "invalid"
       ELSE IF route.delegate = NoDelegate \/ route.delegate \notin DOMAIN s THEN "skip"
       ELSE IF createsCycle(b, f, route.delegate) THEN "cycle"
       ELSE "delegate"

InRoutes(s, b) ==
    /\ b.pc = "compute"
    /\ b.stack # <<>>
    /\ Top(b).fn = "routes"
    /\ Top(b).i <= Len(s[Top(b).ir].routes)

ValidIngressRoutes ==
    /\ pc = "valid"
    /\ \E ord \in Perms(DOMAIN src), ford \in Perms(FqdnKeys(src)) :
           Becomes(validIngressRoutes(src, B, ord, ford))

ComputeIngressRoute ==
    /\ pc = "compute" /\ stack = <<>> /\ valid # <<>>
    /\ Becomes(computeIngressRoute(src, B))

RouteInvalid ==
    /\ InRoutes(src, B) /\ RouteCase(src, B) = "invalid"
    /\ Becomes(processIngressRoutes(src, B))

RouteServices ==
    /\ InRoutes(src, B) /\ RouteCase(src, B) = "services"
    /\ Becomes(processIngressRoutes(src, B))

RouteSkip ==
    /\ InRoutes(src, B) /\ RouteCase(src, B) = "skip"
    /\ Becomes(processIngressRoutes(src, B))

RouteCycle ==
    /\ InRoutes(src, B) /\ RouteCase(src, B) = "cycle"
    /\ Becomes(processIngressRoutes(src, B))

RouteDelegate ==
    /\ InRoutes(src, B) /\ RouteCase(src, B) = "delegate"
    /\ Becomes(processIngressRoutes(src, B))

RoutesEnd ==
    /\ pc = "compute" /\ stack # <<>> /\ Top(B).fn = "routes"
    /\ Top(B).i > Len(src[Top(B).ir].routes)
    /\ Becomes(processIngressRoutesEnd(src, B))

TCPProxy ==
    /\ pc = "compute" /\ stack # <<>> /\ Top(B).fn = "tcp" /\ Top(B).i = 1
    /\ Becomes(processIngressRouteTCPProxy(src, B))

BuildDAG ==
    /\ pc = "compute" /\ stack = <<>> /\ valid = <<>>
    /\ Becomes(buildDAG(src, B))

Next ==
    \/ ValidIngressRoutes
    \/ ComputeIngressRoute
    \/ RouteInvalid
    \/ RouteServices
    \/ RouteSkip
    \/ RouteCycle
    \/ RouteDelegate
    \/ RoutesEnd
    \/ TCPProxy
    \/ BuildDAG

Spec == Init /\ [][Next]_vars

(* The pass is a sequence of steps of one goroutine that nothing can      *)
(* suspend: a step that can be taken is taken.                            *)
InitDelegation ==
    /\ src \in DelegationInputs \cup TCPDelegationInputs
    /\ pc = "valid"
    /\ valid = <<>>
    /\ statuses = NoStatuses
    /\ orphaned = {}
    /\ virtualhosts = NoHosts
    /\ securevirtualhosts = NoHosts
    /\ stack = <<>>
    /\ heap = NoHeap
    /\ CacheIdle
    /\ cpc = Started(0)
    /\ staticValues = NoListeners
    /\ OuterIdle

SpecFair == InitDelegation /\ [][Next]_vars /\ WF_vars(Next)

(* ----------------------- the listener cache in use -------------------- *)
(* Goroutines call Update, Contents and Query; each blocks at             *)
(* c.mu.Lock() until the mutex is free and releases it when it returns.   *)
Enter(p, op, m, ns) ==
    /\ cpc[p] = "idle"
    /\ cpc' = [cpc EXCEPT ![p] = "lock"]
    /\ cop' = [cop EXCEPT ![p] = op]
    /\ v' = [v EXCEPT ![p] = m]
    /\ names' = [names EXCEPT ![p] = ns]
    /\ ret' = [ret EXCEPT ![p] = <<>>]
    /\ lastSeen' = [lastSeen EXCEPT ![p] = 0]
    /\ next' = [next EXCEPT ![p] = 0]
    /\ UNCHANGED <<mu, values, staticValues, last, waiters, builderVars, outerVars>>

Pending == Cardinality({p \in Procs : cop[p] = "update" /\ cpc[p] # "idle"})

CallUpdate ==
    \E p \in Procs, m \in ListenerMaps :
        /\ last + Pending < MaxVersion
        /\ Enter(p, "update", m, <<>>)

CallContents == \E p \in Procs : Enter(p, "contents", NoListeners, <<>>)

CallQuery == \E p \in Procs, ns \in NameLists : Enter(p, "query", NoListeners, ns)

(* Mutant: the mutex is taken whether it is free or not. *)
LockAnyway ==
    \E p \in Procs :
        /\ cpc[p] = "lock"
        /\ mu' = p
        /\ cpc' = [cpc EXCEPT ![p] = "held"]
        /\ UNCHANGED <<values, staticValues, last, cop, v, names, ret, waitVars, builderVars, outerVars>>

Lock ==
    \E p \in Procs :
        /\ cpc[p] = "lock" /\ mu = 0
        /\ mu' = p
        /\ cpc' = [cpc EXCEPT ![p] = "held"]
        /\ UNCHANGED <<values, staticValues, last, cop, v, names, ret, waitVars, builderVars, outerVars>>

UpdateAssign ==
    \E p \in Procs :
        /\ cpc[p] = "held" /\ cop[p] = "update"
        /\ values' = Update(values, v[p])
        /\ cpc' = [cpc EXCEPT ![p] = "notify"]
        /\ UNCHANGED <<mu, staticValues, last, cop, v, names, ret, waitVars, builderVars, outerVars>>

(* Mutant: Update goes on without the call of Notify. *)
UpdateNotifySkips ==
    \E p \in Procs :
        /\ cpc[p] = "notify"
        /\ cpc' = [cpc EXCEPT ![p] = "unlock"]
        /\ UNCHANGED <<mu, values, staticValues, last, cop, v, names, ret, waitVars, builderVars, outerVars>>

(* c.Cond.Notify(): the version moves on and the blocked readers are     *)
(* woken while the caller still holds c.mu.                               *)
UpdateNotify ==
    \E p \in Procs :
        /\ cpc[p] = "notify"
        /\ last' = Notify(last)
        /\ waiters' = {}
        /\ next' = [q \in Procs |-> IF q = p \/ q \in Woken(waiters) THEN Notify(last) ELSE next[q]]
        /\ cpc' = [q \in Procs |-> IF q = p THEN "unlock"
                                    ELSE IF q \in Woken(waiters) THEN "woken" ELSE cpc[q]]
        /\ UNCHANGED <<mu, values, staticValues, cop, v, names, ret, lastSeen, builderVars, outerVars>>

(* Update's deferred c.mu.Unlock(), run when Update returns. *)
UpdateUnlock ==
    \E p \in Procs :
        /\ cpc[p] = "unlock"
        /\ mu' = 0
        /\ cpc' = [cpc EXCEPT ![p] = "idle"]
        /\ UNCHANGED <<values, staticValues, last, cop, v, names, ret, waitVars, builderVars, outerVars>>

(* WaitForNext(lastSeenVersion): the caller returns at once with the      *)
(* version if it is past lastSeenVersion and is blocked otherwise; a      *)
(* blocked caller returns with the version Notify woke it with, or        *)
(* without one when it is cancelled.  lastSeenVersion is a version the    *)
(* caller has seen: 0 or one that the counter has reached.                *)
CallWait ==
    \E p \in Procs, seen \in 0..last :
        /\ cpc[p] = "idle"
        /\ cpc' = [cpc EXCEPT ![p] = "register"]
        /\ cop' = [cop EXCEPT ![p] = "wait"]
        /\ v' = [v EXCEPT ![p] = NoListeners]
        /\ names' = [names EXCEPT ![p] = <<>>]
        /\ ret' = [ret EXCEPT ![p] = <<>>]
        /\ lastSeen' = [lastSeen EXCEPT ![p] = seen]
        /\ next' = [next EXCEPT ![p] = 0]
        /\ UNCHANGED <<mu, values, staticValues, last, waiters, builderVars, outerVars>>

(* Mutant: the caller is blocked whatever the version is. *)
RegisterBlocks ==
    \E p \in Procs :
        /\ cpc[p] = "register"
        /\ waiters' = waiters \cup {p}
        /\ cpc' = [cpc EXCEPT ![p] = "blocked"]
        /\ UNCHANGED <<mu, values, staticValues, last, cop, v, names, ret, lastSeen, next, builderVars, outerVars>>

Register ==
    \E p \in Procs :
        /\ cpc[p] = "register"
        /\ IF last > lastSeen[p]
           THEN /\ next' = [next EXCEPT ![p] = last]
                /\ cpc' = [cpc EXCEPT ![p] = "idle"]
                /\ waiters' = waiters
           ELSE /\ waiters' = waiters \cup {p}
                /\ cpc' = [cpc EXCEPT ![p] = "blocked"]
                /\ next' = next
        /\ UNCHANGED <<mu, values, staticValues, last, cop, v, names, ret, lastSeen, builderVars, outerVars>>

WaitReturn ==
    \E p \in Procs :
        /\ cpc[p] = "woken"
        /\ cpc' = [cpc EXCEPT ![p] = "idle"]
        /\ UNCHANGED <<mu, values, staticValues, last, cop, v, names, ret, waitVars, builderVars, outerVars>>

Cancel ==
    \E p \in Procs :
        /\ cpc[p] = "blocked"
        /\ waiters' = waiters \ {p}
        /\ cpc' = [cpc EXCEPT ![p] = "idle"]
        /\ UNCHANGED <<mu, values, staticValues, last, cop, v, names, ret, lastSeen, next, builderVars, outerVars>>

ContentsReturn ==
    \E p \in Procs :
        /\ cpc[p] = "held" /\ cop[p] = "contents"
        /\ \E ord \in Perms(DOMAIN values), sord \in Perms(DOMAIN staticValues) :
               ret' = [ret EXCEPT ![p] = Contents(values, staticValues, ord, sord)]
        /\ mu' = 0
        /\ cpc' = [cpc EXCEPT ![p] = "idle"]
        /\ UNCHANGED <<values, staticValues, last, cop, v, names, waitVars, builderVars, outerVars>>

QueryReturn ==
    \E p \in Procs :
        /\ cpc[p] = "held" /\ cop[p] = "query"
        /\ ret' = [ret EXCEPT ![p] = Query(values, staticValues, names[p])]
        /\ mu' = 0
        /\ cpc' = [cpc EXCEPT ![p] = "idle"]
        /\ UNCHANGED <<values, staticValues, last, cop, v, names, waitVars, builderVars, outerVars>>

NextCache ==
    \/ CallUpdate
    \/ CallContents
    \/ CallQuery
    \/ Lock
    \/ UpdateAssign
    \/ UpdateNotify
    \/ UpdateUnlock
    \/ ContentsReturn
    \/ QueryReturn
    \/ CallWait
    \/ Register
    \/ WaitReturn
    \/ Cancel

(* The cache is used while no build pass runs. *)
InitCache ==
    /\ CacheIdle
    /\ cpc = Started(NumCallers)
    /\ staticValues \in StaticTables
    /\ src = NoStatuses
    /\ pc = "done"
    /\ valid = <<>>
    /\ statuses = NoStatuses
    /\ orphaned = {}
    /\ virtualhosts = NoHosts
    /\ securevirtualhosts = NoHosts
    /\ stack = <<>>
    /\ heap = NoHeap
    /\ OuterIdle

SpecCache == InitCache /\ [][NextCache]_vars

(* Updates and waits alone.  A goroutine that can go on does go on: it    *)
(* gets the mutex if it is free again and again (sync.Mutex does not      *)
(* starve a waiter), and a woken reader returns; nothing makes a          *)
(* goroutine call the cache or cancel a wait.                             *)
NextWait ==
    \/ CallUpdate
    \/ Lock
    \/ UpdateAssign
    \/ UpdateNotify
    \/ UpdateUnlock
    \/ CallWait
    \/ Register
    \/ WaitReturn
    \/ Cancel

(* A step by which the goroutine p goes on with the call it is in. *)
Progress(p) == cpc[p] \notin {"idle", "blocked"} /\ NextWait /\ cpc'[p] # cpc[p]

SpecWait ==
    /\ InitCache
    /\ [][NextWait]_vars
    /\ \A p \in Procs : SF_vars(Progress(p))

(* The builder's goroutine (1) pushes its maps with Update while all the  *)
(* others are stream handlers in WaitForNext.                             *)
UpdaterCall == CallUpdate /\ cpc'[1] # cpc[1]

StreamCall == CallWait /\ cpc'[1] = cpc[1]

NextWake ==
    \/ UpdaterCall
    \/ Lock
    \/ UpdateAssign
    \/ UpdateNotify
    \/ UpdateUnlock
    \/ StreamCall
    \/ Register
    \/ WaitReturn
    \/ Cancel

InitWake ==
    /\ CacheIdle
    /\ cpc = Started(NumProcs)
    /\ staticValues = NoListeners
    /\ src = NoStatuses
    /\ pc = "done"
    /\ valid = <<>>
    /\ statuses = NoStatuses
    /\ orphaned = {}
    /\ virtualhosts = NoHosts
    /\ securevirtualhosts = NoHosts
    /\ stack = <<>>
    /\ heap = NoHeap
    /\ OuterIdle

ProgressWake(p) == cpc[p] \notin {"idle", "blocked"} /\ NextWake /\ cpc'[p] # cpc[p]

SpecWake ==
    /\ InitWake
    /\ [][NextWake]_vars
    /\ \A p \in Procs : SF_vars(ProgressWake(p))

(* ---------------------- the listener visitor at work ------------------- *)
(* visitListeners walks the graph; the vertices come in the order the     *)
(* range over the graph's maps yields them, which is any order.           *)
VisitVirtualHost ==
    /\ vpc = "visit"
    /\ VirtualHost \in tovisit
    /\ lv' = visit(lv, VirtualHost, root, lvc)
    /\ tovisit' = tovisit \ {VirtualHost}
    /\ UNCHANGED <<root, lvc, vpc, lret, builderVars, cacheVars, routeVars, statusVars>>

VisitSecureVirtualHost ==
    \E n \in HostNames :
        /\ vpc = "visit"
        /\ SecureVirtualHost(n) \in tovisit
        /\ lv' = visit(lv, SecureVirtualHost(n), root, lvc)
        /\ tovisit' = tovisit \ {SecureVirtualHost(n)}
        /\ UNCHANGED <<root, lvc, vpc, lret, builderVars, cacheVars, routeVars, statusVars>>

VisitListenersReturn ==
    /\ vpc = "visit"
    /\ tovisit = {}
    /\ lret' = visitListenersEnd(lv, root, lvc)
    /\ vpc' = "done"
    /\ UNCHANGED <<root, lvc, lv, tovisit, builderVars, cacheVars, routeVars, statusVars>>

NextVisitor ==
    \/ VisitVirtualHost
    \/ VisitSecureVirtualHost
    \/ VisitListenersReturn

BuilderIdle ==
    /\ src = NoStatuses
    /\ pc = "done"
    /\ valid = <<>>
    /\ statuses = NoStatuses
    /\ orphaned = {}
    /\ virtualhosts = NoHosts
    /\ securevirtualhosts = NoHosts
    /\ stack = <<>>
    /\ heap = NoHeap

CacheOff ==
    /\ CacheIdle
    /\ cpc = Started(0)
    /\ staticValues = NoListeners

InitVisitor ==
    /\ root \in Graphs
    /\ lvc \in Configs
    /\ lv = newListenerVisitor
    /\ tovisit = Vertices(root)
    /\ vpc = "visit"
    /\ lret = NoListenerMap
    /\ BuilderIdle
    /\ CacheOff
    /\ RouteIdle
    /\ StatusIdle

SpecVisitor == InitVisitor /\ [][NextVisitor]_vars

(* The visitor on graphs of a few TLS-terminating hosts that ask for      *)
(* every minimum and maximum protocol version, under every configured     *)
(* floor.                                                                 *)
TlsProtocols == TLS_AUTO..TLSv1_3
VersionHosts ==
    [Secret : {1}, MinProtoVersion : TlsProtocols, MaxProtoVersion : TlsProtocols,
     DownstreamValidation : {nil}, TCPProxy : {nil, 1}, FallbackCertificate : {nil}]
VersionGraphs ==
    [secure : UNION {[S -> VersionHosts] : S \in SUBSET (1..MaxVersionHosts)}, insecure : BOOLEAN]
VersionConfigs == [MinimumProtocolVersion : TlsProtocols, DefaultCertificate : {nil}]

InitVersions ==
    /\ root \in VersionGraphs
    /\ lvc \in VersionConfigs
    /\ lv = newListenerVisitor
    /\ tovisit = Vertices(root)
    /\ vpc = "visit"
    /\ lret = NoListenerMap
    /\ BuilderIdle
    /\ CacheOff
    /\ RouteIdle
    /\ StatusIdle

SpecVersions == InitVersions /\ [][NextVisitor]_vars

(* ----------------------- weightedClusters at work ---------------------- *)
WeightedClustersAppend ==
    /\ wpc = "loop"
    /\ Len(wc.Clusters) < Len(services)
    /\ LET r == weightedClustersAppend(wc, total, services[Len(wc.Clusters) + 1])
       IN wc' = r.wc /\ total' = r.total
    /\ UNCHANGED <<services, wpc, builderVars, cacheVars, visitorVars, statusVars>>

WeightedClustersReturn ==
    /\ wpc = "loop"
    /\ Len(wc.Clusters) = Len(services)
    /\ wc' = weightedClustersEnd(wc, total, Len(services))
    /\ wpc' = "done"
    /\ UNCHANGED <<services, total, builderVars, cacheVars, visitorVars, statusVars>>

NextRoute ==
    \/ WeightedClustersAppend
    \/ WeightedClustersReturn

InitRoute ==
    /\ services \in ServiceLists
    /\ wc = NoWeightedCluster
    /\ total = 0
    /\ wpc = "loop"
    /\ BuilderIdle
    /\ CacheOff
    /\ VisitorIdle
    /\ StatusIdle

SpecRoute == InitRoute /\ [][NextRoute]_vars

(* ------------------------ the status writer at work -------------------- *)
(* A call of SetStatus with a status and a description for a resource of  *)
(* the store, as the store has it.                                        *)
CallSetStatus ==
    \E id \in DOMAIN objects, n \in StatusValues :
        LET r == SetStatus(n.currentStatus, n.description, objects[id])
        IN /\ setcalls < MaxSetCalls
           /\ n.currentStatus # ""
           /\ objects' = [objects EXCEPT ![id] = r.object]
           /\ writes' = IF r.write THEN writes + 1 ELSE writes
           /\ setcalls' = setcalls + 1
           /\ lastset' = [id |-> id, st |-> n.currentStatus, d |-> n.description, existing |-> objects[id]]
           /\ UNCHANGED <<builderVars, cacheVars, visitorVars, routeVars>>

NextStatus == CallSetStatus

InitStatus ==
    /\ objects \in [1..NumObjects -> StatusValues]
    /\ writes = 0
    /\ setcalls = 0
    /\ lastset = NoSetCall
    /\ BuilderIdle
    /\ CacheOff
    /\ VisitorIdle
    /\ RouteIdle

SpecStatus == InitStatus /\ [][NextStatus]_vars

(* ---------------------------- the route table ------------------------- *)
(* The routes of a virtual host as the route table lists them: collected  *)
(* by a range over the host's map of routes, in whatever order the range  *)
(* yields them, then sorted stably: the greater path prefix first, then   *)
(* the route with more header conditions, then by the header conditions   *)
(* themselves.  Strings are compared by their place in WordOrder.         *)
WordOrder == <<"", ",", "/", "a", "b", "bar", "exact", "foo", "header", "present", "x", "y">>
WordRank(w) == CHOOSE k \in DOMAIN WordOrder : WordOrder[k] = w

RECURSIVE wordsLess(_, _)
wordsLess(a, b) ==
    IF b = <<>> THEN FALSE
    ELSE IF a = <<>> THEN TRUE
    ELSE IF Head(a) # Head(b) THEN WordRank(Head(a)) < WordRank(Head(b))
    ELSE wordsLess(Tail(a), Tail(b))

routeLess(a, b) ==
    IF a.pathCondition # b.pathCondition THEN wordsLess(b.pathCondition, a.pathCondition)
    ELSE IF Len(a.headerConditions) # Len(b.headerConditions)
         THEN Len(a.headerConditions) > Len(b.headerConditions)
         ELSE wordsLess(headerConditionsToString(a.headerConditions),
                        headerConditionsToString(b.headerConditions))

RECURSIVE insertRoute(_, _)
insertRoute(s, x) ==
    IF s = <<>> THEN <<x>>
    ELSE IF routeLess(x, Last(s))
         THEN Append(insertRoute(SubSeq(s, 1, Len(s) - 1), x), Last(s))
         ELSE Append(s, x)

RECURSIVE sortRoutes(_)
sortRoutes(s) ==
    IF s = <<>> THEN <<>>
    ELSE insertRoute(sortRoutes(SubSeq(s, 1, Len(s) - 1)), Last(s))

(* order: the keys of the map in the order the range yields them. *)
routeTable(routes, order) == sortRoutes([k \in DOMAIN order |-> routes[order[k]]])

(* ------------------------------ claims -------------------------------- *)
(* The resources on the path of activations that ends at frame k: the     *)
(* activations of the same function from the root's down to k.            *)
Ancestors(stk, k) ==
    LET SameFn(j) == j <= k /\ stk[j].fn = stk[k].fn
        RECURSIVE Collected(_)
        Collected(j) == IF j > k THEN <<>>
                        ELSE (IF SameFn(j) THEN <<stk[j].ir>> ELSE <<>>) \o Collected(j + 1)
    IN Collected(1)

Depth(fn) == Cardinality({k \in DOMAIN stack : stack[k].fn = fn})

(* C1: the build pass terminates for every resource set, cycles and       *)
(* self-edges of route and TCP-proxy delegation included, and neither     *)
(* recursion is ever deeper than the number of resources.                 *)
C1_DepthBounded ==
    /\ Depth("routes") <= Cardinality(DOMAIN src)
    /\ Depth("tcp") <= Cardinality(DOMAIN src)

C1_Terminates == []C1_DepthBounded /\ <>(pc = "done")

(* A pass that ended after a cycle through all the resources was found. *)
C1_Witness ==
    /\ pc = "done"
    /\ \E id \in DOMAIN statuses :
           /\ statuses[id].description.msg \in {MsgCycle, MsgTCPCycle}
           /\ Len(statuses[id].description.ids) = NumResources + 1

(* The target of the delegation edge that the top activation is about to  *)
(* follow: the delegate of a route entry (or TCP proxy block) without     *)
(* services that names a resource of the snapshot; 0 if there is none.    *)
EdgeTarget ==
    IF pc # "compute" \/ stack = <<>> THEN 0
    ELSE LET f == Top(B)
             e == IF f.fn = "tcp" THEN src[f.ir].tcpproxy
                  ELSE IF f.i <= Len(src[f.ir].routes) THEN src[f.ir].routes[f.i]
                  ELSE NoTCPProxy
         IN IF (f.fn = "tcp" => f.i = 1) /\ Len(e.services) = 0 /\ e.delegate \in DOMAIN src
            THEN e.delegate ELSE 0

CurrentPath == Ancestors(stack, Len(stack))

OnCurrentPath(t) == \E k \in DOMAIN CurrentPath : CurrentPath[k] = t

(* C2: when a step meets an edge whose target is already on the current   *)
(* ancestor path, the owner's activation returns without an activation    *)
(* for the target, the path reported to the owner's status writer is      *)
(* root, ..., owner, target, and the owner of the edge has the status     *)
(* Invalid in the statuses the pass ends with.                            *)
C2_CycleStep ==
    (EdgeTarget # 0 /\ OnCurrentPath(EdgeTarget)) =>
        LET n == Len(stack)
            f == stack[n]
            d == Desc(IF f.fn = "tcp" THEN MsgTCPCycle ELSE MsgCycle,
                      Append(CurrentPath, EdgeTarget), <<>>)
            end == Run(src, B')
        IN /\ Len(stack') < n
           /\ \A k \in DOMAIN stack' : stack'[k].ir = stack[k].ir /\ stack'[k].fn = stack[k].fn
           /\ f.shared => stack'[n - 1].sw["description"] = d
           /\ (~f.shared /\ f.ir \notin DOMAIN statuses) => statuses'[f.ir].description = d
           /\ end.pc = "done" =>
                 /\ f.ir \in DOMAIN end.statuses
                 /\ end.statuses[f.ir].status = StatusInvalid

C2_CycleReported == [][C2_CycleStep]_vars

(* A cycle through all the resources was just recorded for its owner. *)
C2_Witness ==
    /\ pc = "compute"
    /\ \E id \in DOMAIN statuses :
           /\ statuses[id].status = StatusInvalid
           /\ statuses[id].description.msg = MsgCycle
           /\ Len(statuses[id].description.ids) = NumResources + 1
           /\ statuses[id].description.ids[1] = statuses[id].description.ids[NumResources + 1]
           /\ id = statuses[id].description.ids[NumResources]

(* C3: when a route entry closes a cycle, the entries after it in the     *)
(* same resource are still processed.                                     *)
C3_LaterEntriesProcessed ==
    [][(/\ EdgeTarget # 0
        /\ OnCurrentPath(EdgeTarget)
        /\ Top(B).fn = "routes"
        /\ Top(B).i < Len(src[Top(B).ir].routes))
       => (/\ Len(stack') = Len(stack)
           /\ Top(B)'.ir = Top(B).ir
           /\ Top(B)'.i = Top(B).i + 1)]_vars

(* C4: every activation sees exactly its own ancestors as visited,        *)
(* whatever its siblings did; an edge whose target is not among them is   *)
(* followed into the target and nothing is reported.                      *)
C4_VisitedIntact ==
    \A k \in DOMAIN stack : SliceElems(heap, stack[k].visited) = Ancestors(stack, k)

C4_EdgeStep ==
    (EdgeTarget # 0 /\ ~OnCurrentPath(EdgeTarget)) =>
        /\ Len(stack') = Len(stack) + 1
        /\ Top(B)'.ir = EdgeTarget
        /\ Top(B)'.fn = Top(B).fn
        /\ statuses' = statuses

C4_OnlyAncestorsAreCycles == []C4_VisitedIntact /\ [][C4_EdgeStep]_vars

(* Under the only root, a resource that already has its (valid) record    *)
(* from one path is being processed again on another path.                *)
C4_Witness ==
    /\ Cardinality({id \in DOMAIN src : ~src[id].virtualhost.isnil}) = 1
    /\ Len(stack) >= 2
    /\ stack[1].ir \notin DOMAIN statuses
    /\ Top(B).ir \in DOMAIN statuses
    /\ statuses[Top(B).ir].status = StatusValid

(* The roots of a snapshot, and the roots that declare the FQDN of id. *)
Roots(s) == {id \in DOMAIN s : ~s[id].virtualhost.isnil}

SameFqdn(s, id) == {j \in Roots(s) : s[j].virtualhost.fqdn = s[id].virtualhost.fqdn}

Conflicting(s) == {id \in Roots(s) : Cardinality(SameFqdn(s, id)) > 1}

GoodTerminal(e) ==
    /\ Len(e.services) > 0 /\ e.delegate = NoDelegate
    /\ ~idleTimeout(e.idleTimeout).invalid /\ FirstBad(e.services) = 0

PureEdge(e, t) == Len(e.services) = 0 /\ e.delegate = t

(* C5: once validIngressRoutes has run, and still at the end of the pass, *)
(* every root whose FQDN several roots declare is Invalid with the one    *)
(* message that lists all the roots of that FQDN in sorted order, also    *)
(* when another root delegates to it.                                     *)
C5_ConflictingRootsInvalid ==
    pc \in {"compute", "done"} =>
        \A id \in Conflicting(src) :
            /\ id \in DOMAIN statuses
            /\ statuses[id] =
                   [status      |-> StatusInvalid,
                    description |-> Desc(MsgFqdn, SortedSeq(SameFqdn(src, id)),
                                         <<<<src[id].virtualhost.fqdn>>>>),
                    vhost       |-> src[id].virtualhost.fqdn]

(* The pass ended after the root r3 delegated to the conflicting root r1  *)
(* and r1's terminal entry was added to r3's virtual host.                *)
C5_Witness ==
    /\ pc = "done"
    /\ \E r1 \in Conflicting(src), r3 \in Roots(src) \ Conflicting(src) :
           /\ Len(src[r3].routes) = 1 /\ PureEdge(src[r3].routes[1], r1)
           /\ Len(src[r1].routes) = 1 /\ GoodTerminal(src[r1].routes[1])
           /\ src[r3].virtualhost.fqdn \in DOMAIN virtualhosts
           /\ src[r1].routes[1].match \in DOMAIN virtualhosts[src[r3].virtualhost.fqdn].routes
           /\ statuses[r3].status = StatusValid

(* C6: no VirtualHost or SecureVirtualHost is ever built for an FQDN that *)
(* several roots declare, and every root with an FQDN of its own is       *)
(* computed: it has its status at the end, and the terminal entry it      *)
(* starts with is in its virtual host.                                    *)
Computable(s, id) ==
    LET tls == s[id].virtualhost.tls
    IN tls.isnil \/ (tls.secretName = "" /\ tls.passthrough) \/ lookupSecret(tls.secretName)

C6_NoHostForConflictingFqdn ==
    /\ \A h \in DOMAIN virtualhosts \cup DOMAIN securevirtualhosts :
           Cardinality({id \in Roots(src) : src[id].virtualhost.fqdn = h}) = 1
    /\ pc = "done" =>
           \A id \in Roots(src) \ Conflicting(src) :
               /\ id \in DOMAIN statuses
               /\ statuses[id].status \in {StatusValid, StatusInvalid}
               /\ (/\ Computable(src, id) /\ src[id].routes # <<>>
                   /\ GoodTerminal(src[id].routes[1])
                   /\ headerConditionsValid(headerMatchConds(src[id].routes, 1)))
                      => /\ src[id].virtualhost.fqdn \in DOMAIN virtualhosts
                         /\ \E k \in DOMAIN virtualhosts[src[id].virtualhost.fqdn].routes :
                                virtualhosts[src[id].virtualhost.fqdn].routes[k].pathCondition
                                    = src[id].routes[1].match

(* The pass ended with a virtual host built for a root although two other *)
(* roots, which list terminal entries, declare one FQDN.                  *)
C6_Witness ==
    /\ pc = "done"
    /\ DOMAIN virtualhosts # {}
    /\ \E id \in Conflicting(src) : src[id].routes # <<>> /\ GoodTerminal(src[id].routes[1])

(* The resources a delegation edge (route or TCP proxy) of y names, and   *)
(* the resources that can be reached from y along such edges.             *)
Edges(s, y) ==
    ({s[y].routes[k].delegate : k \in DOMAIN s[y].routes} \cup {s[y].tcpproxy.delegate})
        \cap DOMAIN s

(* What y shares with others: the targets of its edges and, for a root,  *)
(* the roots that declare its FQDN (and so the virtual host of that name). *)
Shares(s, y) == Edges(s, y) \cup (IF y \in Roots(s) THEN SameFqdn(s, y) ELSE {})

RECURSIVE ReachFrom(_, _)
ReachFrom(s, S) ==
    LET T == S \cup UNION {Shares(s, y) : y \in S}
    IN IF T = S THEN S ELSE ReachFrom(s, T)

Reach(s, y) == ReachFrom(s, {y})

(* Everything that a resource from which x can be reached can reach. *)
Touch(s, x) == UNION {Reach(s, y) : y \in {z \in DOMAIN s : x \in Reach(s, z)}}

(* The roots that share no resource with x. *)
Independent(s, x) == {r \in Roots(s) : Reach(s, r) \cap Touch(s, x) = {}}

Without(s, x) == [i \in DOMAIN s \ {x} |-> s[i]]

(* What the pass b built for the root r: its status and its hosts. *)
BuiltFor(s, b, r) ==
    LET h == s[r].virtualhost.fqdn
    IN [status |-> IF r \in DOMAIN b.statuses THEN <<b.statuses[r]>> ELSE <<>>,
        virtualhost |-> IF h \in DOMAIN b.virtualhosts THEN <<b.virtualhosts[h]>> ELSE <<>>,
        securevirtualhost |->
            IF h \in DOMAIN b.securevirtualhosts THEN <<b.securevirtualhosts[h]>> ELSE <<>>]

(* The outcomes of validIngressRoutes over the range orders, and the      *)
(* pairs of outcomes with and without x under the same orders.            *)
ValidOutcomes(s) ==
    {validIngressRoutes(s, NewBuilder, ord, ford) :
         ord \in Perms(DOMAIN s), ford \in Perms(FqdnKeys(s))}

PassPairs(s, x) ==
    {LET Keep(i) == i # x
         Kept(f) == f \in FqdnKeys(Without(s, x))
     IN <<validIngressRoutes(s, NewBuilder, ord, ford),
          validIngressRoutes(Without(s, x), NewBuilder, SelectSeq(ord, Keep), SelectSeq(ford, Kept))>> :
         ord \in Perms(DOMAIN s), ford \in Perms(FqdnKeys(s))}

NonRoots(s) == DOMAIN s \ Roots(s)

C8_MarkedBeforeRoots ==
    (pc = "compute" /\ (stack # <<>> \/ (valid # <<>> /\ Head(valid) \in Roots(src)))) =>
        /\ \A k \in DOMAIN valid : valid[k] \in Roots(src)
        /\ (stack = <<>> /\ Range(valid) = Roots(src) \ Conflicting(src))
               => orphaned = NonRoots(src)

C8_AtEnd ==
    pc = "done" =>
        /\ orphaned \subseteq NonRoots(src)
        /\ \A x \in NonRoots(src) :
               /\ (\A y \in DOMAIN src : x \notin Edges(src, y)) => x \in orphaned
               /\ x \in orphaned
                      => x \in DOMAIN statuses /\ statuses[x].status = StatusOrphaned
        /\ \A b0 \in ValidOutcomes(src) : Run(src, b0).orphaned = orphaned

C8_OrphanStep ==
    orphaned' =
        IF pc = "compute" /\ stack = <<>> /\ valid # <<>> /\ Head(valid) \notin Roots(src)
        THEN orphaned \cup {Head(valid)}
        ELSE IF EdgeTarget # 0 THEN orphaned \ {EdgeTarget}
        ELSE orphaned

C8_OrphanedIffNotTargeted ==
    []C8_MarkedBeforeRoots /\ []C8_AtEnd /\ [][C8_OrphanStep]_vars

(* The pass ended with one resource without a virtual host still orphaned *)
(* and another one that an edge named no longer so.                       *)
C8_Witness ==
    /\ pc = "done"
    /\ \E x, y \in NonRoots(src) :
           /\ x \in orphaned /\ statuses[x].status = StatusOrphaned
           /\ y \notin orphaned /\ \E r \in Roots(src) : y \in Edges(src, r)

(* C9: the graph and the statuses at the end of the pass are the same for *)
(* every order in which the resources and the FQDN groups are ranged over. *)
C9_OrderIndependent ==
    pc = "done" => \A b0 \in ValidOutcomes(src) : Result(Run(src, b0)) = Result(B)

(* How often the listener o occurs in the sequence r. *)
Count(r, o) == Cardinality({k \in DOMAIN r : r[k] = o})

Occurs(r, n) == Cardinality({k \in DOMAIN r : r[k].name = n})

Requested(ns, n) == Cardinality({k \in DOMAIN ns : ns[k] = n})

Returns(p, op) == cpc[p] # "idle" /\ cop[p] = op /\ cpc'[p] = "idle"

(* C10: the dynamic table changes only when an Update assigns its map,    *)
(* and then it becomes exactly that map, which it still is when that      *)
(* Update returns; the static table never changes; Contents returns each  *)
(* entry of the two tables once and nothing else, and Query returns, for  *)
(* each requested name, the entry the tables hold for it at that time: so *)
(* no read returns an entry that the latest map (or the static table)     *)
(* does not hold.                                                         *)
C10_Step ==
    /\ staticValues' = staticValues
    /\ values' # values =>
           \E p \in Procs : mu = p /\ cop[p] = "update" /\ cpc[p] = "held" /\ values' = v[p]
    /\ \A p \in Procs :
           /\ Returns(p, "update") => values' = v[p]
           /\ Returns(p, "contents") =>
                  \A n \in Range(NameOrder), c \in 0..2 :
                      Count(ret'[p], Listener(n, c)) =
                          (IF n \in DOMAIN values /\ values[n] = Listener(n, c) THEN 1 ELSE 0)
                          + (IF n \in DOMAIN staticValues /\ staticValues[n] = Listener(n, c)
                             THEN 1 ELSE 0)
           /\ Returns(p, "query") =>
                  \A n \in Range(NameOrder) :
                      /\ Occurs(ret'[p], n) =
                             IF n \in DOMAIN values \cup DOMAIN staticValues
                             THEN Requested(names[p], n) ELSE 0
                      /\ \A k \in DOMAIN ret'[p] :
                             ret'[p][k].name = n =>
                                 ret'[p][k] = IF n \in DOMAIN values THEN values[n]
                                              ELSE staticValues[n]

C10_UpdateReplaces == [][C10_Step]_vars

(* After one goroutine's Update with both listeners was replaced by the   *)
(* other's Update with the HTTPS listener alone, a Query for both names   *)
(* returned that listener alone and a Contents call returned it too.      *)
C10_Witness ==
    \E p, q \in Procs :
        /\ p # q
        /\ last = MaxVersion
        /\ DOMAIN values = {ENVOY_HTTPS_LISTENER}
        /\ cpc[q] = "idle" /\ cop[q] = "query"
        /\ names[q] = <<ENVOY_HTTP_LISTENER, ENVOY_HTTPS_LISTENER>>
        /\ ret[q] = <<values[ENVOY_HTTPS_LISTENER]>>
        /\ cpc[p] = "idle" /\ cop[p] = "contents"
        /\ staticValues = NoListeners
        /\ ret[p] = <<values[ENVOY_HTTPS_LISTENER]>>

(* C11: the version counter never decreases; it changes only in the       *)
(* Notify of an Update, and then by one, whatever the interleaving of the *)
(* Updates; every Update that returns has moved it in this call, exactly  *)
(* once; the versions two Updates produced differ.                        *)
C11_Distinct ==
    \A p, q \in Procs :
        (cop[p] = "update" /\ cpc[p] = "idle" /\ cop[q] = "update" /\ cpc[q] = "idle" /\ p # q)
            => next[p] # next[q] /\ next[p] \in 1..last

Notifies(p) == cop[p] = "update" /\ cpc[p] = "notify" /\ cpc'[p] # "notify"

C11_VersionStep ==
    /\ last' >= last
    /\ last' # last => \E p \in Procs : Notifies(p)
    /\ \A p \in Procs :
           /\ Notifies(p) => next[p] = 0 /\ last' = last + 1 /\ next'[p] = last'
           /\ Returns(p, "update") => cpc[p] = "unlock" /\ next[p] \in 1..last /\ next'[p] = next[p]

C11_VersionsIncrease == []C11_Distinct /\ [][C11_VersionStep]_vars

(* An Update is about to move the counter to 1 while the other            *)
(* goroutine's Update waits for the mutex.                                *)
C11_Witness ==
    \E p, q \in Procs :
        /\ cop[p] = "update" /\ cpc[p] = "notify" /\ last = 0
        /\ cop[q] = "update" /\ cpc[q] = "lock"

(* C12: WaitForNext(V) returns at once with the version when it is past V *)
(* and blocks otherwise; a blocked caller is never one whose V the        *)
(* version has passed, it leaves the blocked state only woken by an       *)
(* Update with a version past V or cancelled (and is then no longer       *)
(* registered), and a caller that can return does return.                 *)
C12_WaitState ==
    /\ waiters = {p \in Procs : cpc[p] = "blocked"}
    /\ \A p \in Procs :
           /\ cpc[p] = "blocked" => last <= lastSeen[p]
           /\ cpc[p] = "woken" => next[p] > lastSeen[p]

C12_WaitStep ==
    \A p \in Procs :
        /\ (cpc[p] = "register" /\ cpc'[p] # "register") =>
               IF last > lastSeen[p]
               THEN cpc'[p] = "idle" /\ next'[p] = last
               ELSE cpc'[p] = "blocked" /\ p \in waiters'
        /\ (cpc[p] = "blocked" /\ cpc'[p] # "blocked") =>
               \/ cpc'[p] = "woken" /\ last' > lastSeen[p] /\ next'[p] = last'
               \/ cpc'[p] = "idle" /\ next'[p] = 0 /\ p \notin waiters' /\ last' = last
        /\ (Returns(p, "wait") /\ next'[p] # 0) => next'[p] > lastSeen[p]

C12_WaitForNext ==
    /\ []C12_WaitState
    /\ [][C12_WaitStep]_vars
    /\ \A p \in Procs : (cpc[p] \in {"register", "woken"}) ~> (cpc[p] \in {"idle", "blocked"})

(* A reader that was blocked with version 1 seen has been woken with 2. *)
C12_Witness ==
    \E p \in Procs : cpc[p] = "woken" /\ lastSeen[p] = 1 /\ next[p] = 2

(* C13: the Notify of an Update wakes every reader blocked at that time   *)
(* with the new version and leaves none registered; a reader is blocked   *)
(* only while the version is the one it has seen, so a woken reader gets  *)
(* the version after the one it has seen; Update's last steps are never   *)
(* held up by the readers, and a reader that is blocked while an Update   *)
(* is about to notify does return, as does the Update.                    *)
C13_NoneLost ==
    \A q \in Procs :
        /\ cpc[q] = "blocked" => q \in waiters /\ last = lastSeen[q]
        /\ cpc[q] = "woken" => next[q] = lastSeen[q] + 1
        /\ cpc[q] = "notify" => ENABLED UpdateNotify
        /\ cpc[q] = "unlock" => ENABLED UpdateUnlock

C13_WakeStep ==
    \A p \in Procs :
        Notifies(p) =>
            /\ waiters' = {}
            /\ \A q \in waiters : cpc'[q] = "woken" /\ next'[q] = last' /\ last' = lastSeen[q] + 1

C13_UpdateWakesAll ==
    /\ []C13_NoneLost
    /\ [][C13_WakeStep]_vars
    /\ \A p, q \in Procs : (cpc[p] = "notify" /\ cpc[q] = "blocked") ~> (cpc[q] # "blocked")
    /\ \A p \in Procs : (cpc[p] \in {"notify", "unlock"}) ~> (cpc[p] = "idle")

(* One Update has just woken the two stream handlers that were blocked    *)
(* with version 1 seen.                                                   *)
C13_Witness ==
    /\ last = 2
    /\ \E q, r \in Procs :
           /\ q # r
           /\ cpc[q] = "woken" /\ lastSeen[q] = 1 /\ next[q] = 2
           /\ cpc[r] = "woken" /\ lastSeen[r] = 1 /\ next[r] = 2

(* C14: at most one goroutine is between c.mu.Lock() and its return, so a *)
(* Query or Contents never returns while an Update has assigned its map   *)
(* but not yet moved the version; outside such an Update the dynamic      *)
(* table is the map of the Update that produced the current version, and  *)
(* what a read returns is computed from that whole map.                   *)
Inside == {p \in Procs : cpc[p] \in {"held", "notify", "unlock"}}

Produced(q) == cop[q] = "update" /\ cpc[q] \in {"unlock", "idle"} /\ next[q] = last

C14_OneGeneration ==
    /\ Cardinality(Inside) <= 1
    /\ \A p \in Procs : p \in Inside <=> mu = p
    /\ \A q \in Procs :
           (Produced(q) /\ \A p \in Procs : cpc[p] # "notify") => values = v[q]

C14_ReadStep ==
    \A p \in Procs :
        (Returns(p, "query") \/ Returns(p, "contents")) =>
            /\ Inside = {p}
            /\ values' = values
            /\ \A q \in Procs :
                   Produced(q) =>
                       IF cop[p] = "query"
                       THEN ret'[p] = Query(v[q], staticValues, names[p])
                       ELSE \E ord \in Perms(DOMAIN v[q]), sord \in Perms(DOMAIN staticValues) :
                                ret'[p] = Contents(v[q], staticValues, ord, sord)

C14_ReadsSeeOneGeneration == []C14_OneGeneration /\ [][C14_ReadStep]_vars

(* A read waits for the mutex while the second Update has assigned its    *)
(* map, which differs from the first one, and not yet moved the version.  *)
C14_Witness ==
    \E p, q \in Procs :
        /\ cpc[p] = "lock" /\ cop[p] \in {"query", "contents"}
        /\ cpc[q] = "notify" /\ last = 1 /\ values = v[q]
        /\ DOMAIN values = {ENVOY_HTTPS_LISTENER}

(* C15: Query always returns; what it returns is ordered by name and      *)
(* holds, for every requested name, as many entries as the name was       *)
(* requested if a table has the name and none otherwise, each of them the *)
(* dynamic table's listener of that name if there is one and the static   *)
(* table's otherwise; nothing else is returned.                           *)
C15_NoError ==
    \A p \in Procs : (cpc[p] = "held" /\ cop[p] = "query") => ENABLED QueryReturn

C15_QueryStep ==
    \A p \in Procs :
        Returns(p, "query") =>
            LET r == ret'[p]
                Has(n) == n \in DOMAIN values \cup DOMAIN staticValues
            IN /\ \A k \in DOMAIN r :
                      /\ r[k].name \in Range(names[p])
                      /\ Has(r[k].name)
                      /\ r[k] = IF r[k].name \in DOMAIN values THEN values[r[k].name]
                                ELSE staticValues[r[k].name]
                      /\ k > 1 => Rank(r[k - 1].name) <= Rank(r[k].name)
               /\ \A n \in Range(NameOrder) :
                      Occurs(r, n) = IF Has(n) THEN Requested(names[p], n) ELSE 0
               /\ Len(r) <= Len(names[p])

C15_QueryResolves == []C15_NoError /\ [][C15_QueryStep]_vars

(* A Query for the HTTPS listener, which the static table alone has, and  *)
(* for a name no table has returned the static listener alone; and a      *)
(* Query for the name both tables have returned the dynamic one.          *)
C15_Witness ==
    /\ staticValues # NoListeners
    /\ \E p, q \in Procs :
           /\ cpc[p] = "idle" /\ cop[p] = "query"
           /\ names[p] = <<OtherName, ENVOY_HTTPS_LISTENER>>
           /\ ret[p] = <<staticValues[ENVOY_HTTPS_LISTENER]>>
           /\ cpc[q] = "idle" /\ cop[q] = "query"
           /\ names[q] = <<ENVOY_HTTPS_LISTENER>>
           /\ ENVOY_HTTPS_LISTENER \in DOMAIN values
           /\ ret[q] = <<values[ENVOY_HTTPS_LISTENER]>>

(* The filter chains of the secure listener in the returned map, and the  *)
(* hosts of the graph by kind: those that terminate TLS and have no TCP   *)
(* target, and those with a TCP target.                                   *)
SecureChains == IF ENVOY_HTTPS_LISTENER \in DOMAIN lret THEN lret[ENVOY_HTTPS_LISTENER] ELSE <<>>
GroupedHosts == {n \in DOMAIN root.secure : root.secure[n].Secret # nil /\ root.secure[n].TCPProxy = nil}
TCPHosts == {n \in DOMAIN root.secure : root.secure[n].TCPProxy # nil}
ChainsOf(n) == {i \in DOMAIN SecureChains : n \in Range(SecureChains[i].ServerNames)}
SNIChains == {i \in DOMAIN SecureChains : SecureChains[i].ServerNames \notin {<<>>, <<NoServerName>>}}

(* Two hosts have the same TLS context: the same secret, the same         *)
(* resolved protocol versions and the same client validation.             *)
SameContext(m, n) ==
    LET a == root.secure[m]
        b == root.secure[n]
    IN /\ a.Secret = b.Secret
       /\ max(minProtoVersion(lvc), a.MinProtoVersion) = max(minProtoVersion(lvc), b.MinProtoVersion)
       /\ maxProtoVersion(a.MaxProtoVersion) = maxProtoVersion(b.MaxProtoVersion)
       /\ a.DownstreamValidation = b.DownstreamValidation

(* C16: after the visit, every TLS-terminating host without a TCP target  *)
(* is in exactly one chain, whose server names are the sorted list of all *)
(* such hosts with its TLS context and which is no TCP-proxy chain; every *)
(* host with a TCP target has a chain of its own with its single name;    *)
(* and the chains with server names hold nothing but these hosts.         *)
C16_ChainsGroupedByContext ==
    vpc = "done" =>
        /\ \A n \in GroupedHosts :
              /\ Cardinality(ChainsOf(n)) = 1
              /\ \A i \in ChainsOf(n) :
                    /\ SecureChains[i].ServerNames
                          = SortedSeq({m \in GroupedHosts : SameContext(m, n)})
                    /\ ~isTCPProxyFilter(SecureChains[i].Filters)
                    /\ SecureChains[i].TransportSocket # <<>>
                    /\ SecureChains[i].TransportSocket[1].Secret = root.secure[n].Secret
        /\ \A n \in TCPHosts :
              /\ Cardinality(ChainsOf(n)) = 1
              /\ \A i \in ChainsOf(n) :
                    /\ SecureChains[i].ServerNames = <<n>>
                    /\ isTCPProxyFilter(SecureChains[i].Filters)
        /\ \A i \in SNIChains : Range(SecureChains[i].ServerNames) \subseteq DOMAIN root.secure
        /\ Cardinality(SNIChains) <= Cardinality(DOMAIN root.secure)

(* Three hosts with one secret were visited: two without a TCP target     *)
(* and with one TLS context, which share a chain, and one with a TCP      *)
(* target, which has its own; and another chain was there before the      *)
(* second name joined the shared one.                                     *)
C16_Witness ==
    /\ vpc = "done"
    /\ \E m, n \in GroupedHosts, k \in TCPHosts :
          /\ m # n
          /\ SameContext(m, n)
          /\ root.secure[k].Secret = root.secure[m].Secret
          /\ \E i \in DOMAIN SecureChains : SecureChains[i].ServerNames = <<m, n>>
    /\ Len(SecureChains) >= 3

(* The chains of the secure listener that match on no host name: no       *)
(* server names at all, or the empty server name.                         *)
NoSNIChains == DOMAIN SecureChains \ SNIChains
FallbackHosts == {n \in DOMAIN root.secure : root.secure[n].FallbackCertificate # nil}

(* C17: the visitor returns at most two listeners, and when some host     *)
(* enables the fallback certificate the secure listener has exactly one   *)
(* chain that matches on no host name, with or without a default          *)
(* certificate.                                                           *)
C17_OneNoSNIChain ==
    vpc = "done" =>
        /\ Cardinality(DOMAIN lret) <= 2
        /\ FallbackHosts # {} => Cardinality(NoSNIChains) = 1

(* C18: the map visitListeners returned is the one it returns for every   *)
(* order of visiting the vertices of the graph.                           *)
C18_VisitOrderIndependent ==
    vpc = "done" =>
        \A order \in Perms(Vertices(root)) : lret = visitListeners(root, lvc, order)

(* The services as (name, weight) pairs the clusters are compared with,   *)
(* and the sum of the weights.                                            *)
AllZero == \A i \in DOMAIN services : services[i].Weight = 0
RECURSIVE SumWeights(_)
SumWeights(s) == IF s = <<>> THEN 0 ELSE Head(s).Weight + SumWeights(Tail(s))
(* The uint32 value u is the number n. *)
IsNumber(u, n) == n >= 0 /\ u.hi = n \div Half /\ u.lo = n % Half
Rearranged(cs, f(_)) ==
    \E p \in Perms(DOMAIN services) :
        \A i \in DOMAIN services :
            /\ cs[i].Name = services[p[i]].Name
            /\ IsNumber(cs[i].Weight, f(services[p[i]]))
GivenWeight(s) == s.Weight
WeightOne(s) == 1

(* C19: the weighted cluster weightedClusters returns has one cluster per *)
(* service; if every weight is zero each cluster has weight 1 and the     *)
(* total is the number of clusters, otherwise each cluster has its        *)
(* service's weight and the total is the sum; the clusters are sorted by  *)
(* name, then weight, and are the same for every order of the services.   *)
C19_WeightsResolved ==
    wpc = "done" =>
        /\ Len(wc.Clusters) = Len(services)
        /\ AllZero => /\ Rearranged(wc.Clusters, WeightOne)
                      /\ IsNumber(wc.TotalWeight, Len(services))
        /\ ~AllZero => /\ Rearranged(wc.Clusters, GivenWeight)
                       /\ IsNumber(wc.TotalWeight, SumWeights(services))
        /\ \A i, j \in DOMAIN wc.Clusters :
              i < j => \/ wc.Clusters[i].Name < wc.Clusters[j].Name
                       \/ /\ wc.Clusters[i].Name = wc.Clusters[j].Name
                          /\ ~u32Less(wc.Clusters[j].Weight, wc.Clusters[i].Weight)
        /\ \A p \in Perms(DOMAIN services) :
              weightedClusters([i \in DOMAIN services |-> services[p[i]]]) = wc

(* Three services came in descending order, one of them twice with        *)
(* different weights, one without weight, and the weights were kept.      *)
C19_Witness ==
    /\ wpc = "done"
    /\ Len(services) = 3
    /\ services[1].Name > services[3].Name
    /\ services[1].Name = services[2].Name
    /\ services[1].Weight > services[2].Weight
    /\ \E i \in DOMAIN services : services[i].Weight = 0
    /\ IsNumber(wc.TotalWeight, SumWeights(services))
    /\ SumWeights(services) > Len(services)

(* --------------------------- idle timeouts ---------------------------- *)
(* The routes the pass has built, of the insecure and the secure hosts. *)
BuiltRoutes ==
    UNION ({{virtualhosts[h].routes[m] : m \in DOMAIN virtualhosts[h].routes} :
               h \in DOMAIN virtualhosts}
           \cup {{securevirtualhosts[h].routes[m] : m \in DOMAIN securevirtualhosts[h].routes} :
                    h \in DOMAIN securevirtualhosts})

RoutesOfEntry(e) == {r \in BuiltRoutes : r.pathCondition = e.match}

(* The entries of the resources that list services. *)
ServiceEntries ==
    UNION {{<<id, i>> : i \in {j \in DOMAIN src[id].routes : Len(src[id].routes[j].services) > 0}} :
           id \in DOMAIN src}

RequestedTimeout(t) == t # NoDuration /\ t[1].valid
NotPositive(t) == RequestedTimeout(t) /\ t[1].d <= 0
Clamped(t) ==
    IF ~RequestedTimeout(t) THEN <<>> ELSE IF t[1].d > Hour THEN <<Hour>> ELSE <<t[1].d>>
WithinHour(t) == t = <<>> \/ (t[1] > 0 /\ t[1] <= Hour)

AsksNotPositive(e) ==
    NotPositive(e.idleTimeout) \/ \E k \in DOMAIN e.services : NotPositive(e.services[k].idleTimeout)

Processed(id) == id \in DOMAIN statuses /\ statuses[id].status # StatusOrphaned

TerminatingHosts == {n \in DOMAIN root.secure : root.secure[n].Secret # nil}
ContextsOf(n) == {SecureChains[i].TransportSocket : i \in ChainsOf(n)}

(* The floor in force: the configured one, TLS 1.1 if that is lower. *)
Floor == IF lvc.MinimumProtocolVersion < TLSv1_1 THEN TLSv1_1 ELSE lvc.MinimumProtocolVersion

(* C21: after the visit, the chain of every TLS-terminating host has as   *)
(* minimum version the larger of the floor (the configured one, at least  *)
(* TLS 1.1) and the host's minimum, and as maximum version the host's     *)
(* maximum, TLS 1.3 if the host leaves it unset.                          *)
C21_VersionsResolved ==
    vpc = "done" =>
        \A n \in TerminatingHosts :
            /\ ContextsOf(n) # {}
            /\ \A t \in ContextsOf(n) :
                  /\ t # <<>>
                  /\ t[1].TlsMinimumProtocolVersion >= Floor
                  /\ t[1].TlsMinimumProtocolVersion >= root.secure[n].MinProtoVersion
                  /\ t[1].TlsMinimumProtocolVersion \in {Floor, root.secure[n].MinProtoVersion}
                  /\ t[1].TlsMaximumProtocolVersion =
                        (IF root.secure[n].MaxProtoVersion = TLS_AUTO
                         THEN TLSv1_3 ELSE root.secure[n].MaxProtoVersion)

(* Visited: a host under a floor below TLS 1.1 that asks for no minimum   *)
(* and no maximum, and a host whose minimum is above the floor and whose  *)
(* maximum is set.                                                        *)
C21_Witness ==
    /\ vpc = "done"
    /\ lvc.MinimumProtocolVersion < TLSv1_1
    /\ \E m, n \in TerminatingHosts :
          /\ root.secure[m].MinProtoVersion = TLS_AUTO
          /\ root.secure[m].MaxProtoVersion = TLS_AUTO
          /\ \E t \in ContextsOf(m) :
                 t[1].TlsMinimumProtocolVersion = TLSv1_1 /\ t[1].TlsMaximumProtocolVersion = TLSv1_3
          /\ root.secure[n].MinProtoVersion = TLSv1_3
          /\ root.secure[n].MaxProtoVersion = TLSv1_1 + 1
          /\ \E t \in ContextsOf(n) :
                 t[1].TlsMinimumProtocolVersion = TLSv1_3 /\ t[1].TlsMaximumProtocolVersion = TLSv1_1 + 1

(* C29: after the visit, every TLS-terminating chain of the secure        *)
(* listener has a minimum version that is not above its maximum version.  *)
C29_MinNotAboveMax ==
    vpc = "done" =>
        \A i \in DOMAIN SecureChains :
            SecureChains[i].TransportSocket # <<>> =>
                SecureChains[i].TransportSocket[1].TlsMinimumProtocolVersion
                    <= SecureChains[i].TransportSocket[1].TlsMaximumProtocolVersion

(* --------------------- the TCP proxy block of a root ------------------- *)
(* The roots whose TCP proxy block the pass validates: the FQDN is theirs *)
(* alone, TLS is configured and its secret, if any, resolves.             *)
TCPValidated ==
    {id \in Roots(src) \ Conflicting(src) :
        /\ ~src[id].virtualhost.tls.isnil
        /\ Computable(src, id)
        /\ ~src[id].tcpproxy.isnil}

(* The block lists both services and a delegate, or a service that does   *)
(* not exist.                                                             *)
TCPBlockFails(tp) ==
    /\ Len(tp.services) > 0
    /\ \/ tp.delegate # NoDelegate
       \/ \E k \in DOMAIN tp.services : ~lookupService(tp.services[k].name, tp.services[k].port)

(* C22: when the pass is done, a root whose TCP proxy block fails         *)
(* validation has the status Invalid.                                     *)
C22_TCPFailureInvalid ==
    pc = "done" =>
        \A id \in TCPValidated :
            TCPBlockFails(src[id].tcpproxy) =>
                id \in DOMAIN statuses /\ statuses[id].status = StatusInvalid

(* -------------------------- header conditions -------------------------- *)
(* The header conditions an entry lists, as a route carries them, and     *)
(* whether two of them are exact matches on one header name.              *)
ListedConditions(e) ==
    [k \in DOMAIN e.headerMatch |->
        [Name |-> e.headerMatch[k].Name,
         Value |-> IF e.headerMatch[k].Present THEN "" ELSE e.headerMatch[k].Exact,
         MatchType |-> IF e.headerMatch[k].Present THEN "present" ELSE "exact"]]

DuplicateExact(e) ==
    \E i, j \in DOMAIN e.headerMatch :
        /\ i < j
        /\ ~e.headerMatch[i].Present /\ ~e.headerMatch[j].Present
        /\ e.headerMatch[i].Name = e.headerMatch[j].Name

(* The roots the pass goes into (the FQDN is theirs alone and their       *)
(* secret resolves) whose entries all list services that exist, on valid  *)
(* ports, with no delegate and no refused timeout.                        *)
TerminalResources ==
    {id \in Roots(src) \ Conflicting(src) :
        /\ Computable(src, id)
        /\ Processed(id)
        /\ src[id].routes # <<>>
        /\ \A i \in DOMAIN src[id].routes : GoodTerminal(src[id].routes[i])}

(* C23: when the pass is done, a resource is invalid for its header       *)
(* conditions only if one of its entries lists two exact matches on one   *)
(* header name; a resource none of whose entries does so is valid and     *)
(* each of its entries has a route that carries exactly the header        *)
(* conditions the entry lists.                                            *)
C23_HeaderConditionsKept ==
    pc = "done" =>
        \A id \in TerminalResources :
            /\ (statuses[id].status = StatusInvalid /\ statuses[id].description.msg = MsgHeaders)
                   => \E i \in DOMAIN src[id].routes : DuplicateExact(src[id].routes[i])
            /\ (\A i \in DOMAIN src[id].routes : ~DuplicateExact(src[id].routes[i]))
                   => /\ statuses[id].status = StatusValid
                      /\ \A i \in DOMAIN src[id].routes :
                            \E r \in RoutesOfEntry(src[id].routes[i]) :
                                r.headerConditions = ListedConditions(src[id].routes[i])

(* Two entries of a resource with one path prefix, each with one exact    *)
(* match on the same header name, with different values.                  *)
SameHeaderOtherValue(e1, e2) ==
    /\ e1.match = e2.match
    /\ Len(e1.headerMatch) = 1 /\ Len(e2.headerMatch) = 1
    /\ ~e1.headerMatch[1].Present /\ ~e2.headerMatch[1].Present
    /\ e1.headerMatch[1].Name = e2.headerMatch[1].Name
    /\ e1.headerMatch[1].Exact # e2.headerMatch[1].Exact

HostRoutes(id) == virtualhosts[src[id].virtualhost.fqdn].routes

ClusterNamesOf(r) == [k \in DOMAIN r.clusters |-> r.clusters[k].name]
ServiceNamesOf(e) == [k \in DOMAIN e.services |-> e.services[k].name]

C24_SetStatusIdempotent ==
    [][setcalls' # setcalls =>
          LET c == lastset'
              same == objects[c.id].currentStatus = c.st /\ objects[c.id].description = c.d
          IN /\ same => (writes' = writes /\ objects' = objects)
             /\ ~same => writes' = writes + 1
             /\ objects'[c.id].currentStatus = c.st
             /\ objects'[c.id].description = c.d
             /\ \A o \in DOMAIN objects \ {c.id} : objects'[o] = objects[o]]_vars

(* Two calls were made: one issued a write, and the last one found the    *)
(* resource already carrying the status and the description and issued    *)
(* none.                                                                  *)
C24_Witness ==
    /\ setcalls = 2
    /\ writes = 1
    /\ lastset.id \in DOMAIN objects
    /\ lastset.existing = Status(lastset.st, lastset.d)
    /\ objects[lastset.id] = lastset.existing

(* --------------------------- delegated prefixes ------------------------ *)
(* A path extends a prefix: the prefix is empty, or the path is the       *)
(* prefix or goes on after it with a new segment (a closing slash does    *)
(* not count).                                                            *)
Trimmed(p) == IF p # <<>> /\ Last(p) = "/" THEN SubSeq(p, 1, Len(p) - 1) ELSE p
Extends(path, prefix) ==
    \/ prefix = <<>>
    \/ /\ path # <<>>
       /\ \/ Trimmed(path) = Trimmed(prefix)
          \/ /\ Len(Trimmed(path)) > Len(Trimmed(prefix))
             /\ SubSeq(Trimmed(path), 1, Len(Trimmed(prefix))) = Trimmed(prefix)
             /\ Trimmed(path)[Len(Trimmed(prefix)) + 1] = "/"

(* The entry the top activation is at, and whether a step changes the     *)
(* routes of some host.                                                   *)
TopEntry == src[Top(B).ir].routes[Top(B).i]
GraphChanges == virtualhosts' # virtualhosts \/ securevirtualhosts' # securevirtualhosts
HasRouteOf(vhs, host, e) ==
    /\ host \in DOMAIN vhs
    /\ \E k \in DOMAIN vhs[host].routes :
          /\ vhs[host].routes[k].pathCondition = e.match
          /\ [c \in DOMAIN vhs[host].routes[k].clusters |->
                 <<vhs[host].routes[k].clusters[c].name, vhs[host].routes[k].clusters[c].port>>]
                = [c \in DOMAIN e.services |-> <<e.services[c].name, e.services[c].port>>]

(* C26: in every step that processes an entry listing services, if the    *)
(* entry also names a delegate or its path does not extend the prefix     *)
(* the activation inherited, no route is added, the activation returns    *)
(* and the resource is recorded Invalid; a route is added only for an     *)
(* entry without delegate whose path extends the inherited prefix, and    *)
(* it is that entry's route; and an entry of a root always extends the    *)
(* prefix of its activation, which is empty when computeIngressRoute      *)
(* starts it.                                                             *)
C26_PrefixChecked ==
    [][(InRoutes(src, B) /\ Len(TopEntry.services) > 0) =>
          LET f == Top(B)
              e == TopEntry
              refused == e.delegate # NoDelegate \/ ~Extends(e.match, f.prefixMatch)
          IN /\ refused =>
                   /\ ~GraphChanges
                   /\ Len(stack') = Len(stack) - 1
                   /\ f.ir \in DOMAIN statuses'
                   /\ statuses'[f.ir].status = StatusInvalid
             /\ GraphChanges =>
                   /\ ~refused
                   /\ HasRouteOf(virtualhosts', f.host, e)
             /\ Len(stack) = 1 => f.prefixMatch = <<>>
             /\ f.ir \in Roots(src) => Extends(e.match, f.prefixMatch)]_vars

(* A pass refused a resource for a path outside the inherited prefix,     *)
(* another for an entry with services and a delegate would be refused     *)
(* too, and built the route /a/c of a resource delegated the prefix /a.   *)
C26_Witness ==
    /\ pc = "done"
    /\ \E id \in DOMAIN statuses :
          statuses[id].status = StatusInvalid /\ statuses[id].description.msg = MsgPrefix
    /\ \E id \in DOMAIN statuses : id # 1 /\ statuses[id].status = StatusValid
    /\ HostA \in DOMAIN virtualhosts
    /\ \E k \in DOMAIN virtualhosts[HostA].routes :
          virtualhosts[HostA].routes[k].pathCondition = PathAC

(* C27: a step that adds a route does so for a path that extends the      *)
(* prefix of every delegation edge on the chain of activations that led   *)
(* to the entry, the last edge and all those before it.                   *)
C27_ScopeTransitive ==
    [][(InRoutes(src, B) /\ GraphChanges) =>
          \A k \in 1..Len(stack) :
              stack[k].fn = "routes" => Extends(TopEntry.match, stack[k].prefixMatch)]_vars

(* --------------------------- a failing entry --------------------------- *)
(* C28: the step on a route entry that fails validation adds no route and *)
(* removes none, un-orphans nothing, ends the activation of the resource  *)
(* (so none of its later entries is processed) and leaves the frames      *)
(* below as they are, the delegating activation standing at the entry     *)
(* after its edge; the resource is Invalid after the step, and a resource *)
(* recorded Invalid keeps that record in every later step.                *)
C28_FailureStopsResource ==
    [][/\ (InRoutes(src, B) /\ RouteCase(src, B) = "invalid") =>
            LET f == Top(B)
                n == Len(stack)
            IN /\ ~GraphChanges
               /\ orphaned' = orphaned
               /\ Len(stack') = n - 1
               /\ \A k \in 1..(n - 1) : stack'[k] = stack[k]
               /\ n > 1 =>
                     /\ pc' = "compute"
                     /\ stack[n - 1].ir # f.ir
                     /\ src[stack[n - 1].ir].routes[stack[n - 1].i - 1].delegate = f.ir
               /\ f.ir \in DOMAIN statuses'
               /\ statuses'[f.ir].status = StatusInvalid
       /\ \A id \in DOMAIN statuses :
            statuses[id].status = StatusInvalid =>
                id \in DOMAIN statuses' /\ statuses'[id] = statuses[id]]_vars

(* A finished pass in which the delegated resource 2 failed at its second *)
(* entry: the route of its first entry (to port 82) is in the host, the   *)
(* resource it would have delegated to in its third entry is orphaned, 2  *)
(* is Invalid, and the root went on to its next entry (route to port 81)  *)
(* and is Valid.                                                          *)
C28_Witness ==
    /\ pc = "done"
    /\ src \in ChainInputs
    /\ {1, 2, 3} \subseteq DOMAIN statuses
    /\ statuses[1].status = StatusValid
    /\ statuses[2].status = StatusInvalid
    /\ statuses[3].status = StatusOrphaned
    /\ HostA \in DOMAIN virtualhosts
    /\ \E k \in DOMAIN virtualhosts[HostA].routes :
          virtualhosts[HostA].routes[k].clusters[1].port = 82
    /\ \E k \in DOMAIN virtualhosts[HostA].routes :
          virtualhosts[HostA].routes[k].clusters[1].port = 81
    /\ \A k \in DOMAIN virtualhosts[HostA].routes :
          virtualhosts[HostA].routes[k].clusters[1].port \notin {83, 84}

(* --------------------------- HTTP filters ------------------------------ *)
(* The HTTP connection managers of the listeners returned.                *)
ConnectionManagers ==
    UNION {UNION {{lret[n][i].Filters[k] : k \in {j \in DOMAIN lret[n][i].Filters :
                                       lret[n][i].Filters[j].Name = HTTPConnectionManagerName}} :
                  i \in DOMAIN lret[n]} : n \in DOMAIN lret}

(* C30: every HTTP connection manager on a filter chain of the listeners  *)
(* returned carries the default HTTP filter list, the router last.        *)
C30_DefaultHTTPFilters ==
    vpc = "done" =>
        \A cm \in ConnectionManagers :
            /\ cm.HttpFilters = DefaultFilters(<<>>)
            /\ Last(cm.HttpFilters) = Router
====
